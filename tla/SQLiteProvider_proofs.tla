------------------------ MODULE SQLiteProvider_proofs ------------------------
(***************************************************************************)
(* Proofs about SQLiteProvider.                                            *)
(***************************************************************************)
EXTENDS SQLiteProvider, WellFoundedInduction, SequenceTheorems, TLAPS

(* How many statements an operation has, and the one it uses when k are    *)
(* left, itself included.                                                  *)
Length(o, l) ==
  CASE o \in {"add", "getFilename", "updateThumbnail", "pushStackItem",
              "countStackItems"}     -> 1
    [] o \in {"get", "popStackItem"} -> 2
    [] o = "remove"                  -> 3
    [] o = "updateMetadata"          -> Values + 2
    [] o = "updateInvalid"           -> 4
    [] o = "removeStackItems"        -> Len(l)
    [] o = "bumpStackItems"          -> Len(l) + Len(l)

Name(o, l, k) ==
  CASE o = "add"              -> "ADD"
    [] o = "get"              -> IF k = 2 THEN "GET" ELSE "GET_META"
    [] o = "getFilename"      -> "GET_FILENAME"
    [] o = "remove"           -> IF k = 3 THEN "MEDIA_ID"
                                 ELSE IF k = 2 THEN "DEL" ELSE "DEL_META"
    [] o = "updateThumbnail"  -> "UPDATE_BLOB"
    [] o = "updateMetadata"   -> IF k = Values + 2 THEN "MEDIA_ID"
                                 ELSE IF k = Values + 1 THEN "DEL_META"
                                 ELSE "ADD_META"
    [] o = "updateInvalid"    -> IF k = 4 THEN "MEDIA_ID"
                                 ELSE IF k = 3 THEN "DEL_META"
                                 ELSE IF k = 2 THEN "ADD_META" ELSE "INVALID"
    [] o = "pushStackItem"    -> "STACK_ADD"
    [] o = "countStackItems"  -> "STACK_COUNT"
    [] o = "removeStackItems" -> "STACK_REMOVE"
    [] o = "bumpStackItems"   -> IF k > Len(l) THEN "STACK_REMOVE" ELSE "BUMP"
    [] o = "popStackItem"     -> IF k = 2 THEN "STACK_GET" ELSE "STACK_DELETE"

Of(o, l, k) ==
  CASE o = "removeStackItems" -> l[Len(l) + 1 - k]
    [] o = "bumpStackItems"   -> l[IF k > Len(l) THEN Len(l) + Len(l) + 1 - k
                                                 ELSE Len(l) + 1 - k]
    [] OTHER                  -> l[1]

Steps == (Stmts \union {"BUMP", "INVALID"}) \X Guids

(* The sequence q is the end of the program of o.                          *)
Ends(q, o, l) ==
  /\ q \in Seq(Steps)
  /\ Len(q) <= Length(o, l)
  /\ \A i \in 1..Len(q) :
       q[i] = <<Name(o, l, Len(q) + 1 - i), Of(o, l, Len(q) + 1 - i)>>

TodoOK ==
  /\ op = "none" => (todo = <<>> /\ e = "ok")
  /\ op # "none" => args \in Arguments(op) /\ Ends(todo, op, args)
  /\ e = "error" => todo = <<>>

(* Only ADD is left halted or failed.  Outside a transaction, with no      *)
(* statement active, nothing is uncommitted; an operation that brackets    *)
(* its statements is in a transaction until it fails.  Where no lock is    *)
(* met no statement is active, and only such an operation is in one.       *)
ConnectionOK ==
  /\ \A s \in Stmts \ {"ADD"} : stmt[s] \in {"fresh", "active"}
  /\ ~open /\ Active = {} => work = disk
  /\ op \in Bracketed /\ e = "ok" => open
  /\ NoLocks => Active = {} /\ (open => op \in Bracketed)

(* An add that has met no error has its row.                               *)
AddOK == (op = "add" /\ todo = <<>> /\ e = "ok") => work.media[args[1]] # 0

(* No id is used twice, only stored images have thumbnails, and metadata   *)
(* belongs to its image, but for what remove is about to delete.           *)
Orphans == IF op = "remove" /\ Len(todo) = 1 THEN {rowid} ELSE {}

RowsOK(t, orphans) ==
  /\ \A g, h \in Guids : t.media[g] = t.media[h] /\ t.media[g] # 0 => g = h
  /\ \A g \in t.thumb : t.media[g] # 0
  /\ \A r \in t.meta :
       r[1] # 0 => t.media[r[3]] = r[1] \/ r[1] \in orphans

(* The id that getRowid found is the image's.                              *)
RowidOK ==
  /\ op = "remove" /\ Len(todo) = 2 => rowid = work.media[args[1]] /\ rowid # 0
  /\ op = "remove" /\ Len(todo) = 1 =>
       \A g \in Guids : work.media[g] = rowid => rowid = 0
  /\ op = "updateMetadata" /\ todo # <<>> /\ Len(todo) < Values + 2 =>
       rowid = work.media[args[1]]
  /\ op = "updateInvalid" /\ todo # <<>> /\ Len(todo) < 4 =>
       rowid = work.media[args[1]]

DataOK ==
  RemoveIsWhole => RowsOK(disk, Orphans) /\ RowsOK(work, Orphans) /\ RowidOK

(* How far a transaction has come that will be committed.                  *)
AddProgress ==
  IF todo = <<>>
  THEN /\ disk.media[args[1]] = 0
       /\ work = [disk EXCEPT !.media[args[1]] = NewId(MediaIds(disk))]
  ELSE work = disk

MetadataProgress ==
  /\ work.media = disk.media
  /\ work.thumb = disk.thumb
  /\ work.stack = disk.stack
  /\ IF Len(todo) > Values
     THEN work = disk
     ELSE LET id == disk.media[args[1]]
          IN {r \in work.meta : r[1] # 0} =
               {r \in disk.meta : r[1] # 0 /\ r[1] # id} \union
               {<<id, n, args[1]>> : n \in IF id = 0 THEN {}
                                           ELSE (Len(todo) + 1)..Values}

PushProgress ==
  IF todo = <<>>
  THEN work = [disk EXCEPT !.stack =
                 @ \union {<<NewId(StackIds(disk)), args[1]>>}]
  ELSE work = disk

PopProgress ==
  LET id == Largest(StackIds(disk))
  IN IF todo = <<>>
     THEN work = [disk EXCEPT !.stack = {r \in @ : r[1] # id}]
     ELSE work = disk /\ (Len(todo) = 1 => rowid = id)

RemoveProgress ==
  work = [disk EXCEPT !.stack =
            {r \in @ : \A i \in 1..(Len(args) - Len(todo)) : r[2] # args[i]}]

Progress ==
  /\ op = "add" => AddProgress
  /\ op = "updateMetadata" => MetadataProgress
  /\ op = "updateInvalid" => todo # <<>>
  /\ op = "pushStackItem" => PushProgress
  /\ op = "popStackItem" => PopProgress
  /\ op = "removeStackItems" => RemoveProgress

ProgressOK ==
  op \in Bracketed /\ e = "ok" /\ Active = {} => Progress

(* Where no lock is met, an operation without an error has done what it    *)
(* says, and those that fail do it for a reason.                           *)
OutcomeOK ==
  NoLocks =>
    /\ op = "remove" /\ Len(todo) <= 1 => disk.media[args[1]] = 0
    /\ op = "updateThumbnail" /\ todo = <<>> /\ e = "ok"
         /\ disk.media[args[1]] # 0 => args[1] \in disk.thumb
    /\ op # "none" /\ e = "error" =>
         \/ op \in {"add", "get", "getFilename", "updateInvalid"}
         \/ op = "popStackItem" /\ disk.stack = {}

Whole == RemoveIsWhole /\ "bumpStackItems" \notin world.ops

StoreInv == Whole => ProgressOK /\ OutcomeOK

Inv == TypeOK /\ TodoOK /\ ConnectionOK /\ AddOK /\ DataOK
-----------------------------------------------------------------------------
(* The largest id of a bounded set: ids and 0 have one, which is Largest.  *)
LEMMA LargestIs ==
  ASSUME NEW S \in SUBSET Nat, Bounded(S)
  PROVE  /\ Largest(S) \in Nat
         /\ \A x \in S : x <= Largest(S)
         /\ Largest(S) \in S \union {0}
<1> DEFINE T == S \union {0}
<1>1. PICK n \in Nat : \A x \in T : x <= n
  <2>1. PICK n \in Nat : \A x \in S : x <= n
    BY DEF Bounded
  <2> QED
    BY <2>1
<1> DEFINE D == {n - x : x \in T}
<1>2. D \in SUBSET Nat /\ n \in D
  <2>1. D \in SUBSET Nat
    BY <1>1
  <2>2. n - 0 \in D
    OBVIOUS
  <2> QED
    BY <2>1, <2>2
<1>3. PICK m \in D : \A d \in D : m <= d
  <2> DEFINE R == {p \in Nat \X Nat : p[1] < p[2]}
  <2>1. \E m \in D : \A d \in D : <<d, m>> \notin R
    <3>1. IsWellFoundedOn(R, Nat)
      BY NatLessThanWellFounded DEF OpToRel
    <3> HIDE DEF R, D
    <3> QED
      BY <1>2, <3>1, WFMin
  <2>2. \A x, y \in Nat : x < y => <<x, y>> \in R
    OBVIOUS
  <2> HIDE DEF R, D
  <2>3. PICK m \in D : \A d \in D : <<d, m>> \notin R
    BY <2>1
  <2>4. \A d \in D : m <= d
    <3> TAKE d \in D
    <3>1. ~(d < m)
      BY <2>2, <2>3, <1>2
    <3> QED
      BY <3>1, <1>2
  <2> QED
    BY <2>4
<1>4. PICK y \in T : m = n - y
  OBVIOUS
<1>5. \A x \in T : y >= x
  <2> TAKE x \in T
  <2>1. n - y <= n - x
    BY <1>3, <1>4
  <2>2. x \in Nat /\ y \in Nat
    OBVIOUS
  <2> HIDE DEF T, D
  <2> QED
    BY <2>1, <2>2
<1>6. Max(T) \in T /\ \A x \in T : Max(T) >= x
  BY <1>5 DEF Max
<1>7. Largest(S) = Max(T)
  BY DEF Largest
<1> HIDE DEF T
<1>8. T \subseteq Nat /\ S \subseteq T /\ T \subseteq S \union {0}
  BY DEF T
<1> QED
  BY <1>6, <1>7, <1>8

LEMMA NewIdIs ==
  ASSUME NEW S \in SUBSET Nat, Bounded(S)
  PROVE  /\ NewId(S) \in Nat /\ NewId(S) > 0
         /\ \A x \in S : x < NewId(S)
         /\ Bounded(S \union {NewId(S)})
<1>1. /\ Largest(S) \in Nat
      /\ \A x \in S : x <= Largest(S)
  BY LargestIs
<1>2. NewId(S) = 1 + Largest(S)
  BY DEF NewId
<1>3. \A x \in S \union {NewId(S)} : x <= NewId(S)
  BY <1>1, <1>2
<1>4. NewId(S) \in Nat
  BY <1>1, <1>2
<1>5. Bounded(S \union {NewId(S)})
  BY <1>3, <1>4 DEF Bounded
<1> QED
  BY <1>1, <1>2, <1>4, <1>5
-----------------------------------------------------------------------------
(* The arguments of an operation: one image, or two different ones.        *)
LEMMA ArgumentsAre ==
  ASSUME NEW o \in Operations, NEW l \in Arguments(o)
  PROVE  /\ l \in Seq(Guids)
         /\ Len(l) \in {1, 2}
         /\ \A i \in 1..Len(l) : l[i] \in Guids
         /\ o \notin {"removeStackItems", "bumpStackItems"} => Len(l) = 1
<1>1. CASE \E g \in Guids : l = <<g>>
  BY <1>1
<1>2. CASE /\ o \in {"removeStackItems", "bumpStackItems"}
           /\ l \in Guids \X Guids
  <2>1. PICK g, h \in Guids : l = <<g, h>>
    BY <1>2
  <2> QED
    BY <1>2, <2>1
<1> QED
  BY <1>1, <1>2 DEF Arguments

LEMMA EachIs ==
  ASSUME NEW s, NEW l \in Seq(Guids)
  PROVE  /\ Each(s, l) \in Seq({s} \X Guids)
         /\ Len(Each(s, l)) = Len(l)
         /\ \A i \in 1..Len(l) : Each(s, l)[i] = <<s, l[i]>>
BY DEF Each

LEMMA OnIs ==
  ASSUME NEW g \in Guids, NEW ss \in Seq(Stmts \union {"BUMP", "INVALID"})
  PROVE  /\ On(g, ss) \in Seq(Steps)
         /\ Len(On(g, ss)) = Len(ss)
         /\ \A i \in 1..Len(ss) : On(g, ss)[i] = <<ss[i], g>>
BY DEF On, Steps

(* The program of an operation is what Name and Of say of each position.   *)
LEMMA ProgramIs ==
  ASSUME NEW o \in Operations, NEW l \in Arguments(o)
  PROVE  Ends(Program(o, l), o, l) /\ Len(Program(o, l)) = Length(o, l)
<1>1. /\ l \in Seq(Guids)
      /\ Len(l) \in {1, 2}
      /\ \A i \in 1..Len(l) : l[i] \in Guids
      /\ o \notin {"removeStackItems", "bumpStackItems"} => Len(l) = 1
  BY ArgumentsAre
<1> DEFINE p == Program(o, l)
           All == Stmts \union {"BUMP", "INVALID"}
<1> SUFFICES Ends(p, o, l) /\ Len(p) = Length(o, l)
  OBVIOUS
<1>a. ASSUME NEW ss \in Seq(All), p = On(l[1], ss), Len(ss) = Length(o, l),
             l[1] \in Guids,
             \A i \in 1..Len(ss) : /\ ss[i] = Name(o, l, Len(ss) + 1 - i)
                                   /\ l[1] = Of(o, l, Len(ss) + 1 - i)
      PROVE  Ends(p, o, l) /\ Len(p) = Length(o, l)
  <2> HIDE DEF p
  <2>1. /\ p \in Seq(Steps)
        /\ Len(p) = Len(ss)
        /\ \A i \in 1..Len(ss) : p[i] = <<ss[i], l[1]>>
    BY <1>a, OnIs
  <2> QED
    BY <1>a, <2>1 DEF Ends
<1>b. {"ADD", "GET", "GET_META", "GET_FILENAME", "STACK_COUNT", "MEDIA_ID", "DEL",
       "DEL_META", "UPDATE_BLOB", "ADD_META", "INVALID", "STACK_ADD", "STACK_GET",
       "STACK_DELETE", "STACK_REMOVE", "BUMP"} \subseteq All
  BY DEF Stmts, Reads, Writes
<1>c. l[1] \in Guids
  BY <1>1
<1> HIDE DEF p, All
<1>2. CASE o = "add"
  <2> DEFINE ss == <<"ADD">>
  <2>1. p = On(l[1], ss)
    BY <1>2 DEF Program, p
  <2>2. /\ ss \in Seq(All) /\ Len(ss) = 1
        /\ ss[1] = "ADD"
    BY <1>b
  <2> HIDE DEF ss
  <2>3. /\ Length(o, l) = 1
        /\ \A i \in 1..1 : /\ ss[i] = Name(o, l, 1 + 1 - i)
                        /\ l[1] = Of(o, l, 1 + 1 - i)
    BY <1>2, <2>2 DEF Length, Name, Of
  <2> QED
    BY ONLY <1>a, <1>c, <2>1, <2>2, <2>3
<1>3. CASE o = "get"
  <2> DEFINE ss == <<"GET", "GET_META">>
  <2>1. p = On(l[1], ss)
    BY <1>3 DEF Program, p
  <2>2. /\ ss \in Seq(All) /\ Len(ss) = 2
        /\ ss[1] = "GET"
        /\ ss[2] = "GET_META"
    BY <1>b
  <2> HIDE DEF ss
  <2>3. /\ Length(o, l) = 2
        /\ \A i \in 1..2 : /\ ss[i] = Name(o, l, 2 + 1 - i)
                        /\ l[1] = Of(o, l, 2 + 1 - i)
    BY <1>3, <2>2 DEF Length, Name, Of
  <2> QED
    BY ONLY <1>a, <1>c, <2>1, <2>2, <2>3
<1>4. CASE o = "getFilename"
  <2> DEFINE ss == <<"GET_FILENAME">>
  <2>1. p = On(l[1], ss)
    BY <1>4 DEF Program, p
  <2>2. /\ ss \in Seq(All) /\ Len(ss) = 1
        /\ ss[1] = "GET_FILENAME"
    BY <1>b
  <2> HIDE DEF ss
  <2>3. /\ Length(o, l) = 1
        /\ \A i \in 1..1 : /\ ss[i] = Name(o, l, 1 + 1 - i)
                        /\ l[1] = Of(o, l, 1 + 1 - i)
    BY <1>4, <2>2 DEF Length, Name, Of
  <2> QED
    BY ONLY <1>a, <1>c, <2>1, <2>2, <2>3
<1>5. CASE o = "remove"
  <2> DEFINE ss == <<"MEDIA_ID", "DEL", "DEL_META">>
  <2>1. p = On(l[1], ss)
    BY <1>5 DEF Program, p
  <2>2. /\ ss \in Seq(All) /\ Len(ss) = 3
        /\ ss[1] = "MEDIA_ID"
        /\ ss[2] = "DEL"
        /\ ss[3] = "DEL_META"
    BY <1>b
  <2> HIDE DEF ss
  <2>3. /\ Length(o, l) = 3
        /\ \A i \in 1..3 : /\ ss[i] = Name(o, l, 3 + 1 - i)
                        /\ l[1] = Of(o, l, 3 + 1 - i)
    BY <1>5, <2>2 DEF Length, Name, Of
  <2> QED
    BY ONLY <1>a, <1>c, <2>1, <2>2, <2>3
<1>6. CASE o = "updateThumbnail"
  <2> DEFINE ss == <<"UPDATE_BLOB">>
  <2>1. p = On(l[1], ss)
    BY <1>6 DEF Program, p
  <2>2. /\ ss \in Seq(All) /\ Len(ss) = 1
        /\ ss[1] = "UPDATE_BLOB"
    BY <1>b
  <2> HIDE DEF ss
  <2>3. /\ Length(o, l) = 1
        /\ \A i \in 1..1 : /\ ss[i] = Name(o, l, 1 + 1 - i)
                        /\ l[1] = Of(o, l, 1 + 1 - i)
    BY <1>6, <2>2 DEF Length, Name, Of
  <2> QED
    BY ONLY <1>a, <1>c, <2>1, <2>2, <2>3
<1>7. CASE o = "updateInvalid"
  <2> DEFINE ss == <<"MEDIA_ID", "DEL_META", "ADD_META", "INVALID">>
  <2>1. p = On(l[1], ss)
    BY <1>7 DEF Program, p
  <2>2. /\ ss \in Seq(All) /\ Len(ss) = 4
        /\ ss[1] = "MEDIA_ID"
        /\ ss[2] = "DEL_META"
        /\ ss[3] = "ADD_META"
        /\ ss[4] = "INVALID"
    BY <1>b
  <2> HIDE DEF ss
  <2>3. /\ Length(o, l) = 4
        /\ \A i \in 1..4 : /\ ss[i] = Name(o, l, 4 + 1 - i)
                        /\ l[1] = Of(o, l, 4 + 1 - i)
    BY <1>7, <2>2 DEF Length, Name, Of
  <2> QED
    BY ONLY <1>a, <1>c, <2>1, <2>2, <2>3
<1>8. CASE o = "pushStackItem"
  <2> DEFINE ss == <<"STACK_ADD">>
  <2>1. p = On(l[1], ss)
    BY <1>8 DEF Program, p
  <2>2. /\ ss \in Seq(All) /\ Len(ss) = 1
        /\ ss[1] = "STACK_ADD"
    BY <1>b
  <2> HIDE DEF ss
  <2>3. /\ Length(o, l) = 1
        /\ \A i \in 1..1 : /\ ss[i] = Name(o, l, 1 + 1 - i)
                        /\ l[1] = Of(o, l, 1 + 1 - i)
    BY <1>8, <2>2 DEF Length, Name, Of
  <2> QED
    BY ONLY <1>a, <1>c, <2>1, <2>2, <2>3
<1>9. CASE o = "countStackItems"
  <2> DEFINE ss == <<"STACK_COUNT">>
  <2>1. p = On(l[1], ss)
    BY <1>9 DEF Program, p
  <2>2. /\ ss \in Seq(All) /\ Len(ss) = 1
        /\ ss[1] = "STACK_COUNT"
    BY <1>b
  <2> HIDE DEF ss
  <2>3. /\ Length(o, l) = 1
        /\ \A i \in 1..1 : /\ ss[i] = Name(o, l, 1 + 1 - i)
                        /\ l[1] = Of(o, l, 1 + 1 - i)
    BY <1>9, <2>2 DEF Length, Name, Of
  <2> QED
    BY ONLY <1>a, <1>c, <2>1, <2>2, <2>3
<1>10. CASE o = "popStackItem"
  <2> DEFINE ss == <<"STACK_GET", "STACK_DELETE">>
  <2>1. p = On(l[1], ss)
    BY <1>10 DEF Program, p
  <2>2. /\ ss \in Seq(All) /\ Len(ss) = 2
        /\ ss[1] = "STACK_GET"
        /\ ss[2] = "STACK_DELETE"
    BY <1>b
  <2> HIDE DEF ss
  <2>3. /\ Length(o, l) = 2
        /\ \A i \in 1..2 : /\ ss[i] = Name(o, l, 2 + 1 - i)
                        /\ l[1] = Of(o, l, 2 + 1 - i)
    BY <1>10, <2>2 DEF Length, Name, Of
  <2> QED
    BY ONLY <1>a, <1>c, <2>1, <2>2, <2>3
<1>11. CASE o = "updateMetadata"
  <2> DEFINE first == <<"MEDIA_ID", "DEL_META">>
             rest == [n \in 1..Values |-> "ADD_META"]
             ss == first \o rest
  <2>1. p = On(l[1], ss)
    BY <1>11 DEF Program, p
  <2>2. /\ first \in Seq(All) /\ Len(first) = 2
        /\ first[1] = "MEDIA_ID"
        /\ first[2] = "DEL_META"
    BY <1>b
  <2>3. Values \in Nat
    BY ProviderAssumption
  <2>4. /\ rest \in Seq(All) /\ Len(rest) = Values
        /\ \A i \in 1..Values : rest[i] = "ADD_META"
    BY <1>b, <2>3
  <2> HIDE DEF first, rest
  <2>5. /\ ss \in Seq(All) /\ Len(ss) = Values + 2
        /\ \A i \in 1..(Values + 2) :
             ss[i] = IF i <= 2 THEN first[i] ELSE rest[i - 2]
    <3>1. /\ ss \in Seq(All)
          /\ Len(ss) = Len(first) + Len(rest)
          /\ \A i \in 1..(Len(first) + Len(rest)) :
               ss[i] = IF i <= Len(first) THEN first[i] ELSE rest[i - Len(first)]
      BY ONLY <2>2, <2>4, ConcatProperties
    <3>2. Len(first) + Len(rest) = Values + 2
      BY <2>2, <2>3, <2>4
    <3> HIDE DEF ss
    <3> QED
      BY <2>2, <3>1, <3>2
  <2> HIDE DEF ss
  <2>6. /\ Length(o, l) = Values + 2
        /\ \A i \in 1..(Values + 2) :
             /\ ss[i] = Name(o, l, Values + 2 + 1 - i)
             /\ l[1] = Of(o, l, Values + 2 + 1 - i)
    <3>1. Length(o, l) = Values + 2
      BY <1>11 DEF Length
    <3> SUFFICES ASSUME NEW i \in 1..(Values + 2)
                 PROVE  /\ ss[i] = Name(o, l, Values + 2 + 1 - i)
                        /\ l[1] = Of(o, l, Values + 2 + 1 - i)
      BY <3>1
    <3>2. l[1] = Of(o, l, Values + 2 + 1 - i)
      BY <1>11 DEF Of
    <3>3. CASE i = 1
      BY <1>11, <2>2, <2>3, <2>5, <3>2, <3>3 DEF Name
    <3>4. CASE i = 2
      BY <1>11, <2>2, <2>3, <2>5, <3>2, <3>4 DEF Name
    <3>5. CASE i > 2
      <4>1. ss[i] = "ADD_META"
        BY <2>3, <2>4, <2>5, <3>5
      <4>2. Name(o, l, Values + 2 + 1 - i) = "ADD_META"
        BY <1>11, <2>3, <3>5 DEF Name
      <4> QED
        BY <3>2, <4>1, <4>2
    <3> QED
      BY <2>3, <3>3, <3>4, <3>5
  <2> QED
    BY ONLY <1>a, <1>c, <2>1, <2>3, <2>5, <2>6
<1>12. ASSUME NEW s \in All
       PROVE  /\ Each(s, l) \in Seq(Steps)
              /\ Len(Each(s, l)) = Len(l)
              /\ \A i \in 1..Len(l) : Each(s, l)[i] = <<s, l[i]>>
  BY <1>1, EachIs, <1>12 DEF Steps, Each, All
<1>13. CASE o = "removeStackItems"
  <2>1. p = Each("STACK_REMOVE", l)
    BY <1>13 DEF Program, p
  <2>2. "STACK_REMOVE" \in All
    BY <1>b
  <2>3. /\ p \in Seq(Steps) /\ Len(p) = Len(l)
        /\ \A i \in 1..Len(l) : p[i] = <<"STACK_REMOVE", l[i]>>
    BY <2>1, <2>2, <1>12
  <2>4. \A i \in 1..Len(l) : /\ Name(o, l, Len(l) + 1 - i) = "STACK_REMOVE"
                             /\ Of(o, l, Len(l) + 1 - i) = l[i]
    BY <1>13, <1>1 DEF Name, Of
  <2>5. Length(o, l) = Len(l)
    BY <1>13 DEF Length
  <2> QED
    BY <1>1, <2>3, <2>4, <2>5 DEF Ends
<1>14. CASE o = "bumpStackItems"
  <2> DEFINE first == Each("STACK_REMOVE", l)
             rest == Each("BUMP", l)
             n == Len(l)
  <2>1. p = first \o rest
    BY <1>14 DEF Program, p
  <2>2. {"STACK_REMOVE", "BUMP"} \subseteq All
    BY <1>b
  <2>3. /\ first \in Seq(Steps) /\ Len(first) = n
        /\ \A i \in 1..n : first[i] = <<"STACK_REMOVE", l[i]>>
        /\ rest \in Seq(Steps) /\ Len(rest) = n
        /\ \A i \in 1..n : rest[i] = <<"BUMP", l[i]>>
    BY <2>2, <1>12
  <2>4. n \in Nat
    BY <1>1
  <2> HIDE DEF first, rest, n
  <2>5. /\ p \in Seq(Steps) /\ Len(p) = n + n
        /\ \A i \in 1..(n + n) :
             p[i] = IF i <= n THEN first[i] ELSE rest[i - n]
    <3>1. /\ first \o rest \in Seq(Steps)
          /\ Len(first \o rest) = Len(first) + Len(rest)
          /\ \A i \in 1..(Len(first) + Len(rest)) :
               (first \o rest)[i] = IF i <= Len(first) THEN first[i]
                                    ELSE rest[i - Len(first)]
      BY ONLY <2>3, ConcatProperties
    <3> QED
      BY <2>1, <2>3, <2>4, <3>1
  <2>6. \A i \in 1..(n + n) :
          /\ Name(o, l, n + n + 1 - i) = IF i <= n THEN "STACK_REMOVE" ELSE "BUMP"
          /\ Of(o, l, n + n + 1 - i) = l[IF i <= n THEN i ELSE i - n]
    BY <1>14, <2>4 DEF Name, Of, n
  <2>7. Length(o, l) = n + n
    BY <1>14 DEF Length, n
  <2>8. \A i \in 1..(n + n) :
          p[i] = <<Name(o, l, n + n + 1 - i), Of(o, l, n + n + 1 - i)>>
    <3> TAKE i \in 1..(n + n)
    <3>1. CASE i <= n
      <4>1. p[i] = <<"STACK_REMOVE", l[i]>>
        BY <2>3, <2>4, <2>5, <3>1
      <4> QED
        BY <2>4, <2>6, <3>1, <4>1
    <3>2. CASE ~(i <= n)
      <4>1. p[i] = rest[i - n] /\ i - n \in 1..n
        BY <2>4, <2>5, <3>2
      <4>2. p[i] = <<"BUMP", l[i - n]>>
        BY <2>3, <4>1
      <4> QED
        BY <2>4, <2>6, <3>2, <4>2
    <3> QED
      BY <3>1, <3>2
  <2> QED
    BY <2>4, <2>5, <2>7, <2>8 DEF Ends
<1> QED
  BY <1>2, <1>3, <1>4, <1>5, <1>6, <1>7, <1>8, <1>9, <1>10, <1>11, <1>13, <1>14
     DEF Operations
-----------------------------------------------------------------------------
(* What is left of a program, and what is left after its next statement.   *)
LEMMA EndOfProgram ==
  ASSUME NEW o \in Operations, NEW l \in Arguments(o), NEW q, Ends(q, o, l),
         q # <<>>
  PROVE  /\ Len(q) \in Nat /\ Len(q) > 0
         /\ Head(q) = <<Name(o, l, Len(q)), Of(o, l, Len(q))>>
         /\ Head(q)[2] \in Guids
         /\ Ends(Tail(q), o, l) /\ Len(Tail(q)) = Len(q) - 1
<1>1. /\ q \in Seq(Steps) /\ Len(q) \in Nat /\ Len(q) > 0
      /\ Len(q) <= Length(o, l)
      /\ \A i \in 1..Len(q) :
           q[i] = <<Name(o, l, Len(q) + 1 - i), Of(o, l, Len(q) + 1 - i)>>
  BY DEF Ends
<1>2. Head(q) = q[1] /\ q[1] \in Steps
  BY <1>1
<1>3. Head(q) = <<Name(o, l, Len(q)), Of(o, l, Len(q))>>
  BY <1>1, <1>2
<1>4. Head(q)[2] \in Guids
  BY <1>2 DEF Steps
<1>5. /\ Tail(q) \in Seq(Steps) /\ Len(Tail(q)) = Len(q) - 1
      /\ \A i \in 1..(Len(q) - 1) : Tail(q)[i] = q[i + 1]
  BY <1>1
<1>6. Length(o, l) \in Nat
  BY ArgumentsAre, ProviderAssumption DEF Operations, Length
<1>7. \A i \in 1..Len(Tail(q)) :
        Tail(q)[i] = <<Name(o, l, Len(Tail(q)) + 1 - i),
                       Of(o, l, Len(Tail(q)) + 1 - i)>>
  <2> SUFFICES ASSUME NEW i \in 1..(Len(q) - 1)
               PROVE  Tail(q)[i] = <<Name(o, l, Len(q) - 1 + 1 - i),
                                     Of(o, l, Len(q) - 1 + 1 - i)>>
    BY <1>5
  <2>1. i + 1 \in 1..Len(q) /\ Len(q) + 1 - (i + 1) = Len(q) - 1 + 1 - i
    BY <1>1
  <2> QED
    BY <1>1, <1>5, <2>1
<1> QED
  BY <1>1, <1>3, <1>4, <1>5, <1>6, <1>7 DEF Ends

LEMMA NothingLeft ==
  ASSUME NEW o \in Operations, NEW l \in Arguments(o)
  PROVE  Ends(<<>>, o, l) /\ Len(<<>>) = 0
<1>1. Length(o, l) \in Nat
  BY ArgumentsAre, ProviderAssumption DEF Operations, Length
<1>2. <<>> \in Seq(Steps) /\ Len(<<>>) = 0
  OBVIOUS
<1> QED
  BY <1>1, <1>2 DEF Ends

(* Which operations use a statement, and with how much left to do.         *)
LEMMA StatementIs ==
  ASSUME TypeOK, TodoOK, todo # <<>>
  PROVE  /\ op \in Operations /\ args \in Arguments(op) /\ e = "ok"
         /\ args[1] \in Guids
         /\ Guid \in Guids
         /\ Len(todo) \in Nat /\ Len(todo) > 0 /\ Len(todo) <= Length(op, args)
         /\ Guid = Of(op, args, Len(todo))
         /\ \A s : Using(s) <=> s = Name(op, args, Len(todo))
<1>1. /\ op \in Operations /\ args \in Arguments(op) /\ e = "ok"
      /\ Ends(todo, op, args)
  BY ProviderAssumption DEF TypeOK, TodoOK
<1>2. args[1] \in Guids
  BY <1>1, ArgumentsAre
<1>3. /\ Len(todo) \in Nat /\ Len(todo) > 0
      /\ Head(todo) = <<Name(op, args, Len(todo)), Of(op, args, Len(todo))>>
      /\ Guid \in Guids
  BY <1>1, EndOfProgram DEF Guid
<1>4. Len(todo) <= Length(op, args)
  BY <1>1 DEF Ends
<1> QED
  BY <1>1, <1>2, <1>3, <1>4 DEF Using, Guid

LEMMA Users ==
  ASSUME TypeOK, TodoOK, todo # <<>>
  PROVE  LET n == Len(todo) IN
    /\ Using("ADD") => op = "add" /\ n = 1 /\ Guid = args[1]
    /\ Using("GET") => op = "get" /\ n = 2
    /\ Using("GET_META") => op = "get" /\ n = 1
    /\ Using("GET_FILENAME") => op = "getFilename" /\ n = 1
    /\ Using("STACK_COUNT") => op = "countStackItems" /\ n = 1
    /\ Using("MEDIA_ID") => /\ Guid = args[1]
                            /\ \/ op = "remove" /\ n = 3
                               \/ op = "updateMetadata" /\ n = Values + 2
                               \/ op = "updateInvalid" /\ n = 4
    /\ Using("DEL") => op = "remove" /\ n = 2 /\ Guid = args[1]
    /\ Using("DEL_META") => \/ op = "remove" /\ n = 1
                            \/ op = "updateMetadata" /\ n = Values + 1
                            \/ op = "updateInvalid" /\ n = 3
    /\ Using("ADD_META") => /\ Guid = args[1]
                            /\ \/ op = "updateMetadata" /\ n <= Values
                               \/ op = "updateInvalid" /\ n = 2
    /\ Using("INVALID") => op = "updateInvalid" /\ n = 1
    /\ Using("UPDATE_BLOB") => op = "updateThumbnail" /\ n = 1 /\ Guid = args[1]
    /\ Using("STACK_ADD") => op = "pushStackItem" /\ n = 1 /\ Guid = args[1]
    /\ Using("STACK_GET") => op = "popStackItem" /\ n = 2
    /\ Using("STACK_DELETE") => op = "popStackItem" /\ n = 1
    /\ Using("STACK_REMOVE") =>
         \/ op = "bumpStackItems"
         \/ op = "removeStackItems" /\ Guid = args[Len(args) + 1 - n]
    /\ Using("BUMP") => op = "bumpStackItems"
<1> DEFINE n == Len(todo)
<1>1. /\ op \in Operations /\ n \in Nat /\ n > 0 /\ n <= Length(op, args)
      /\ Guid = Of(op, args, n)
      /\ \A s : Using(s) <=> s = Name(op, args, n)
  BY StatementIs
<1>2. Values \in Nat
  BY ProviderAssumption
<1> HIDE DEF n
<1>3. CASE op \in {"add", "getFilename", "updateThumbnail", "pushStackItem",
                   "countStackItems"}
  <2>1. n = 1
    BY <1>1, <1>3 DEF Length
  <2> QED
    BY <1>1, <1>3, <2>1 DEF Name, Of, n
<1>4. CASE op \in {"get", "popStackItem"}
  <2>1. n \in {1, 2}
    BY <1>1, <1>4 DEF Length
  <2> QED
    BY <1>1, <1>4, <2>1 DEF Name, Of, n
<1>5. CASE op = "remove"
  <2>1. n \in {1, 2, 3}
    BY <1>1, <1>5 DEF Length
  <2> QED
    BY <1>1, <1>5, <2>1 DEF Name, Of, n
<1>6. CASE op = "updateMetadata"
  <2>1. n <= Values + 2
    BY <1>1, <1>6 DEF Length
  <2>2. n = Values + 2 \/ n = Values + 1 \/ n <= Values
    BY <1>1, <1>2, <2>1
  <2> QED
    BY <1>1, <1>2, <1>6, <2>1, <2>2 DEF Name, Of, n
<1>7. CASE op = "updateInvalid"
  <2>1. n \in {1, 2, 3, 4}
    BY <1>1, <1>7 DEF Length
  <2> QED
    BY <1>1, <1>7, <2>1 DEF Name, Of, n
<1>8. CASE op = "removeStackItems"
  BY <1>1, <1>8 DEF Name, Of, n
<1>9. CASE op = "bumpStackItems"
  BY <1>1, <1>9 DEF Name, Of, n
<1> QED
  BY <1>1, <1>3, <1>4, <1>5, <1>6, <1>7, <1>8, <1>9 DEF Operations

(* What a statement does to what is left of its operation.                 *)
Moves ==
  /\ e' \in {"ok", "error"}
  /\ \/ todo' = <<>> /\ e' = "error"
     \/ todo' = Tail(todo) /\ e' = "ok"
     \/ todo' = Tail(Tail(todo)) /\ e' = "ok" /\ Len(todo) > 1

LEMMA FailMoves ==
  ASSUME Fail
  PROVE  Moves
BY DEF Fail, Moves

LEMMA SucceedMoves ==
  ASSUME Succeed, e = "ok"
  PROVE  Moves
BY DEF Succeed, Moves

LEMMA StepWritesMoves ==
  ASSUME NEW s, NEW t, StepWrites(s, t), e = "ok"
  PROVE  Moves
BY FailMoves, SucceedMoves DEF StepWrites

LEMMA StepIsBusyMoves ==
  ASSUME NEW s, StepIsBusy(s), e = "ok"
  PROVE  Moves
BY FailMoves, SucceedMoves DEF StepIsBusy

LEMMA InsertMoves ==
  ASSUME NEW g, Insert(g), e = "ok"
  PROVE  Moves
BY FailMoves, StepWritesMoves DEF Insert

LEMMA UseMoves ==
  ASSUME TypeOK, TodoOK, Use
  PROVE  Moves /\ todo # <<>> /\ UNCHANGED <<world, op, args, open, result>>
<1>1. UNCHANGED <<world, op, args, open, result>>
  BY DEF Use
<1>2. ASSUME NEW s \in Reads, Query(s)
      PROVE  Moves /\ todo # <<>>
  <2>1. todo # <<>> /\ Using(s)
    BY <1>2 DEF Query, Using
  <2>2. e = "ok"
    BY <2>1, StatementIs
  <2>3. CASE ResetFails(s)
    BY <2>1, <2>3, FailMoves DEF ResetFails
  <2>4. CASE StepIsBusy(s)
    BY <2>1, <2>2, <2>4, StepIsBusyMoves
  <2>5. CASE Succeed \/ Fail
    BY <2>1, <2>2, <2>5, FailMoves, SucceedMoves
  <2>6. CASE /\ s \in {"GET", "MEDIA_ID"}
             /\ UNCHANGED e /\ todo' = Tail(Tail(todo))
    <3>1. Len(todo) > 1
      <4>1. Values \in Nat
        BY ProviderAssumption
      <4> QED
        BY <2>1, <2>6, <4>1, Users
    <3> QED
      BY <2>1, <2>2, <2>6, <3>1 DEF Moves
  <2> QED
    BY <1>2, <2>3, <2>4, <2>5, <2>6 DEF Query
<1>3. ASSUME NEW s \in Writes \ {"ADD"}, Write(s)
      PROVE  Moves /\ todo # <<>>
  <2>1. todo # <<>>
    BY <1>3 DEF Write, Using
  <2>2. e = "ok"
    BY <2>1, StatementIs
  <2> QED
    BY <1>3, <2>1, <2>2, FailMoves, StepIsBusyMoves, StepWritesMoves
       DEF Write, ResetFails
<1>4. ASSUME WriteAdd \/ WriteBump
      PROVE  Moves /\ todo # <<>>
  <2>1. todo # <<>>
    BY <1>4 DEF WriteAdd, WriteBump, Using
  <2>2. e = "ok"
    BY <2>1, StatementIs
  <2> QED
    BY <1>4, <2>1, <2>2, FailMoves, StepIsBusyMoves, InsertMoves
       DEF WriteAdd, WriteBump, ResetFails
<1> QED
  BY <1>1, <1>2, <1>3, <1>4 DEF Use

LEMMA MovesTodo ==
  ASSUME TypeOK, TodoOK, todo # <<>>, Moves, UNCHANGED <<op, args>>
  PROVE  /\ TodoOK'
         /\ \/ todo' = <<>> /\ e' = "error"
            \/ Len(todo') = Len(todo) - 1 /\ e' = "ok"
            \/ Len(todo') = Len(todo) - 2 /\ e' = "ok"
<1>1. /\ op \in Operations /\ args \in Arguments(op) /\ e = "ok"
      /\ Ends(todo, op, args) /\ op # "none"
  BY ProviderAssumption DEF TypeOK, TodoOK
<1>2. CASE todo' = <<>> /\ e' = "error"
  <2>1. Ends(<<>>, op, args)
    BY <1>1, NothingLeft
  <2> QED
    BY <1>1, <1>2, <2>1 DEF TodoOK
<1>3. Ends(Tail(todo), op, args) /\ Len(Tail(todo)) = Len(todo) - 1
      /\ Len(todo) \in Nat
  BY <1>1, EndOfProgram
<1>4. CASE todo' = Tail(todo) /\ e' = "ok"
  BY <1>1, <1>3, <1>4 DEF TodoOK
<1>5. CASE todo' = Tail(Tail(todo)) /\ e' = "ok" /\ Len(todo) > 1
  <2> DEFINE q == Tail(todo)
  <2>1. q # <<>>
    <3>1. Len(q) > 0
      BY <1>3, <1>5
    <3> HIDE DEF q
    <3> QED
      BY <3>1
  <2>2. Ends(Tail(q), op, args) /\ Len(Tail(q)) = Len(q) - 1
    BY <1>1, <1>3, <2>1, EndOfProgram
  <2> QED
    BY <1>1, <1>3, <1>5, <2>2 DEF TodoOK
<1> QED
  BY <1>2, <1>4, <1>5 DEF Moves
-----------------------------------------------------------------------------
(* The ways a statement can end.  A query finds a row or not,              *)
Found(s) ==
  /\ Using(s) /\ Resets(s)
  /\ Becomes(s, "fresh")
  /\ \/ HasRow(s) /\ Succeed
     \/ /\ ~HasRow(s) /\ s \in {"GET", "MEDIA_ID"}
        /\ UNCHANGED e /\ todo' = Tail(Tail(todo))
     \/ ~HasRow(s) /\ s \notin {"GET", "MEDIA_ID"} /\ Fail
  /\ rowid' = CASE s \in {"GET", "MEDIA_ID"} -> work.media[Guid]
                [] s = "STACK_GET"           -> Largest(StackIds(work))
                [] OTHER                     -> rowid
  /\ UNCHANGED <<disk, work>>

(* a statement other than ADD writes,                                      *)
Wrote(s) ==
  /\ Using(s) /\ Resets(s)
  /\ StepWrites(s, Written(s, work, Len(todo)))

(* ADD inserts an image,                                                   *)
Inserted(g) ==
  /\ \/ op = "add" /\ g = args[1] /\ Len(todo) = 1
     \/ op = "bumpStackItems"
  /\ op = "add" => Resets("ADD")
  /\ work.media[g] = 0
  /\ StepWrites("ADD", [work EXCEPT !.media[g] = NewId(MediaIds(work))])

(* or is misused, or refuses the image.                                    *)
Refused ==
  /\ op \in {"add", "bumpStackItems"}
  /\ Fail
  /\ UNCHANGED <<disk, work, rowid>>
  /\ Becomes("ADD", "failed") \/ UNCHANGED stmt

(* Resetting a statement reports the error it ended with.                  *)
Reported(s) ==
  /\ ResetFails(s)
  /\ op = "bumpStackItems" \/ Using(s)

(* A busy step fails, but for that of STACK_REMOVE in bumpStackItems.      *)
Blocked(s) ==
  /\ StepIsBusy(s)
  /\ op = "bumpStackItems" \/ (Resets(s) /\ Fail)

LEMMA UseCases ==
  ASSUME TypeOK, TodoOK, Use
  PROVE  /\ bound' \in Guids \union {NoGuid}
         /\ \/ \E s \in Stmts : Reported(s) \/ Blocked(s)
            \/ \E s \in Reads : Found(s)
            \/ \E s \in Writes \ {"ADD"} : Wrote(s)
            \/ \E g \in Guids : Inserted(g)
            \/ Refused
<1>1. bound \in Guids \union {NoGuid}
  BY DEF TypeOK
<1>2. todo # <<>>
  BY UseMoves
<1>3. Guid \in Guids
  BY <1>2, StatementIs
<1>4. /\ Using("ADD") => op = "add" /\ Len(todo) = 1 /\ Guid = args[1]
      /\ Using("BUMP") => op = "bumpStackItems"
  BY <1>2, Users
<1>5. ASSUME NEW s, StepIsBusy(s), Resets(s)
      PROVE  Blocked(s)
  BY <1>5 DEF Blocked, StepIsBusy, Fail, Succeed
<1>6. ASSUME NEW s \in Reads, Query(s)
      PROVE  bound' = bound /\ (Reported(s) \/ Blocked(s) \/ Found(s))
  <2>1. Ended(s) = "fresh"
    BY <1>6 DEF Ended, Reads
  <2>2. CASE ResetFails(s)
    BY <1>6, <2>2 DEF ResetFails, Reported, Query
  <2>3. CASE Resets(s) /\ StepIsBusy(s) /\ UNCHANGED bound
    BY <1>5, <2>3
  <2>4. CASE ~(ResetFails(s) \/ (Resets(s) /\ StepIsBusy(s) /\ UNCHANGED bound))
    <3>1. /\ Using(s) /\ Resets(s) /\ Becomes(s, "fresh")
          /\ UNCHANGED <<disk, work, bound>>
          /\ rowid' = CASE s \in {"GET", "MEDIA_ID"} -> work.media[Guid]
                        [] s = "STACK_GET"           -> Largest(StackIds(work))
                        [] OTHER                     -> rowid
          /\ IF HasRow(s) THEN Succeed
             ELSE IF s \in {"GET", "MEDIA_ID"}
             THEN UNCHANGED e /\ todo' = Tail(Tail(todo))
             ELSE Fail
      BY <1>6, <2>1, <2>4 DEF Query
    <3> QED
      BY <3>1 DEF Found
  <2> QED
    BY <2>2, <2>3, <2>4
<1>7. ASSUME NEW s \in Writes \ {"ADD"}, Write(s)
      PROVE  bound' = bound /\ (Reported(s) \/ Blocked(s) \/ Wrote(s))
  BY <1>5, <1>7 DEF Write, Reported, ResetFails, Wrote
<1>8. ASSUME NEW g \in Guids \union {NoGuid}, Insert(g),
             \/ op = "add" /\ g = args[1] /\ Len(todo) = 1
             \/ op = "bumpStackItems",
             op = "add" => Resets("ADD")
      PROVE  Refused \/ (g \in Guids /\ Inserted(g))
  BY <1>8 DEF Insert, Inserted, Refused
<1>9. ASSUME WriteAdd
      PROVE  /\ bound' \in {bound, Guid}
             /\ \/ Reported("ADD") \/ Blocked("ADD") \/ Refused
                \/ \E g \in Guids : Inserted(g)
  BY <1>3, <1>4, <1>5, <1>8, <1>9 DEF WriteAdd, Reported, ResetFails
<1>10. ASSUME WriteBump
       PROVE  /\ bound' = bound
              /\ \/ Reported("STACK_ADD") \/ Blocked("ADD") \/ Refused
                 \/ \E g \in Guids : Inserted(g)
  <2>1. op = "bumpStackItems"
    BY <1>4, <1>10 DEF WriteBump
  <2>2. CASE ResetFails("STACK_ADD")
    BY <2>1, <2>2 DEF ResetFails, Reported
  <2>3. CASE Fail /\ UNCHANGED <<disk, work, stmt, rowid, bound>>
    BY <2>1, <2>3 DEF Refused
  <2>4. CASE (StepIsBusy("ADD") \/ Insert(bound)) /\ UNCHANGED bound
    BY <1>1, <1>8, <2>1, <2>4 DEF Blocked
  <2> QED
    BY <1>10, <2>2, <2>3, <2>4 DEF WriteBump
<1>11. Reads \subseteq Stmts /\ Writes \subseteq Stmts
       /\ "ADD" \in Stmts /\ "STACK_ADD" \in Stmts
  BY DEF Stmts, Reads, Writes
<1> QED
  BY <1>1, <1>3, <1>6, <1>7, <1>9, <1>10, <1>11 DEF Use
-----------------------------------------------------------------------------
(* The tables keep their types, and their ids a largest one.               *)
LEMMA BoundedSubset ==
  ASSUME NEW S, NEW T, Bounded(T), S \subseteq T \union {0}
  PROVE  Bounded(S)
<1>1. PICK n \in Nat : \A x \in T : x <= n
  BY DEF Bounded
<1>2. \A x \in S : x <= n
  BY <1>1
<1> QED
  BY <1>1, <1>2 DEF Bounded

LEMMA IdsAreNat ==
  ASSUME NEW t, TableOK(t)
  PROVE  /\ MediaIds(t) \in SUBSET Nat /\ Bounded(MediaIds(t))
         /\ StackIds(t) \in SUBSET Nat /\ Bounded(StackIds(t))
BY DEF TableOK, MediaIds, StackIds, Tables

LEMMA EmptyOK == TableOK(EmptyTables)
<1>1. EmptyTables \in Tables
  BY DEF EmptyTables, Tables
<1>2. MediaIds(EmptyTables) \subseteq {0} /\ StackIds(EmptyTables) = {}
  BY DEF EmptyTables, MediaIds, StackIds
<1>3. Bounded({})
  BY DEF Bounded
<1> QED
  BY <1>1, <1>2, <1>3, BoundedSubset DEF TableOK

LEMMA WrittenOK ==
  ASSUME TypeOK, TodoOK, NEW s \in Writes \ {"ADD"}, Using(s)
  PROVE  TableOK(Written(s, work, Len(todo)))
<1> DEFINE n == Len(todo)
           t == Written(s, work, n)
<1> SUFFICES TableOK(t)
  OBVIOUS
<1>1. todo # <<>> /\ Guid \in Guids /\ n \in Nat
  BY StatementIs DEF Using
<1>2. /\ work \in Tables /\ rowid \in Nat
      /\ work.media \in [Guids -> Nat]
      /\ work.meta \subseteq Nat \X Nat \X Guids
      /\ work.thumb \subseteq Guids
      /\ work.stack \subseteq Nat \X Guids
  BY DEF TypeOK, TableOK, Tables
<1>3. /\ MediaIds(work) \in SUBSET Nat /\ Bounded(MediaIds(work))
      /\ StackIds(work) \in SUBSET Nat /\ Bounded(StackIds(work))
  BY IdsAreNat DEF TypeOK
<1> DEFINE id == NewId(StackIds(work))
<1>4. id \in Nat /\ Bounded(StackIds(work) \union {id})
  BY <1>3, NewIdIs
<1> HIDE DEF n, id
<1>5. CASE s = "DEL"
  <2> DEFINE m == [work.media EXCEPT ![Guid] = 0]
  <2>1. t = [work EXCEPT !.media = m, !.thumb = @ \ {Guid}]
    BY <1>5 DEF Written
  <2>2. m \in [Guids -> Nat] /\ \A g \in Guids : m[g] \in {0, work.media[g]}
    BY <1>1, <1>2
  <2> HIDE DEF m
  <2>3. t \in Tables /\ t.media = m /\ t.stack = work.stack
    BY <1>1, <1>2, <2>1, <2>2 DEF Tables
  <2>4. MediaIds(t) \subseteq MediaIds(work) \union {0}
    BY <2>2, <2>3 DEF MediaIds
  <2>5. StackIds(t) = StackIds(work)
    BY <2>3 DEF StackIds
  <2> QED
    BY <1>3, <2>3, <2>4, <2>5, BoundedSubset DEF TableOK
<1>6. CASE s = "STACK_ADD"
  <2> DEFINE k == work.stack \union {<<id, Guid>>}
  <2>1. t = [work EXCEPT !.stack = k]
    BY <1>6 DEF Written, id
  <2>2. k \subseteq Nat \X Guids
    BY <1>1, <1>2, <1>4
  <2>3. \A r \in k : r[1] \in StackIds(work) \union {id}
    BY DEF StackIds
  <2> HIDE DEF k
  <2>4. t \in Tables /\ t.media = work.media /\ t.stack = k
    BY <1>2, <2>1, <2>2 DEF Tables
  <2>5. StackIds(t) \subseteq StackIds(work) \union {id}
    BY <2>3, <2>4 DEF StackIds
  <2>6. MediaIds(t) = MediaIds(work)
    BY <2>4 DEF MediaIds
  <2> QED
    BY <1>3, <1>4, <2>4, <2>5, <2>6, BoundedSubset DEF TableOK
<1>7. CASE s \in {"DEL_META", "ADD_META", "UPDATE_BLOB"}
  <2>1. t \in Tables /\ t.media = work.media /\ t.stack = work.stack
    <3>1. CASE s = "DEL_META"
      BY <1>2, <3>1 DEF Written, Tables
    <3>2. CASE s = "ADD_META"
      BY <1>1, <1>2, <3>2 DEF Written, Tables
    <3>3. CASE s = "UPDATE_BLOB"
      BY <1>1, <1>2, <3>3 DEF Written, Tables
    <3> QED
      BY <1>7, <3>1, <3>2, <3>3
  <2>2. MediaIds(t) = MediaIds(work) /\ StackIds(t) = StackIds(work)
    BY <2>1 DEF MediaIds, StackIds
  <2> QED
    BY <1>3, <2>1, <2>2 DEF TableOK
<1>8. CASE s \in {"STACK_REMOVE", "STACK_DELETE"}
  <2>1. t \in Tables /\ t.media = work.media /\ t.stack \subseteq work.stack
    BY <1>1, <1>2, <1>8 DEF Written, Tables
  <2>2. StackIds(t) \subseteq StackIds(work) /\ MediaIds(t) = MediaIds(work)
    BY <2>1 DEF StackIds, MediaIds
  <2> QED
    BY <1>3, <2>1, <2>2, BoundedSubset DEF TableOK
<1> QED
  BY <1>5, <1>6, <1>7, <1>8 DEF Writes

LEMMA InsertOK ==
  ASSUME NEW t, TableOK(t), NEW g \in Guids
  PROVE  TableOK([t EXCEPT !.media[g] = NewId(MediaIds(t))])
<1> DEFINE id == NewId(MediaIds(t))
           u == [t EXCEPT !.media[g] = id]
<1>1. /\ MediaIds(t) \in SUBSET Nat /\ Bounded(MediaIds(t))
      /\ StackIds(t) \in SUBSET Nat /\ Bounded(StackIds(t))
  BY IdsAreNat
<1>2. id \in Nat /\ Bounded(MediaIds(t) \union {id})
  BY <1>1, NewIdIs
<1> HIDE DEF id
<1>3. t \in Tables
  BY DEF TableOK
<1>4. u \in Tables
  BY <1>2, <1>3 DEF Tables
<1>5. MediaIds(u) \subseteq MediaIds(t) \union {id}
  BY <1>3 DEF Tables, MediaIds
<1>6. StackIds(u) = StackIds(t)
  BY <1>3 DEF Tables, StackIds
<1> QED
  BY <1>1, <1>2, <1>4, <1>5, <1>6, BoundedSubset DEF TableOK, id

(* The types every statement keeps.                                        *)
StatementTypes ==
  /\ TableOK(disk') /\ TableOK(work')
  /\ stmt' \in [Stmts -> {"fresh", "halted", "failed", "active"}]
  /\ rowid' \in Nat

LEMMA StepWritesTypes ==
  ASSUME TypeOK, NEW s \in Writes, NEW t, TableOK(t), StepWrites(s, t)
  PROVE  StatementTypes
<1>1. TableOK(disk') /\ TableOK(work')
  BY DEF StepWrites, TypeOK
<1>2. \E x \in {"fresh", "halted", "active"} : stmt' = [stmt EXCEPT ![s] = x]
  BY DEF StepWrites, Becomes, Ended
<1> QED
  BY <1>1, <1>2 DEF StatementTypes, StepWrites, TypeOK

LEMMA UseTypes ==
  ASSUME TypeOK, TodoOK, Use
  PROVE  TypeOK'
<1>1. e' \in {"ok", "error"} /\ UNCHANGED <<world, op, args, open, result>>
  BY UseMoves DEF Moves
<1>2. bound' \in Guids \union {NoGuid}
  BY UseCases
<1>3. ASSUME NEW s \in Stmts, Reported(s)
      PROVE  StatementTypes
  BY <1>3 DEF Reported, ResetFails, Becomes, TypeOK, StatementTypes
<1>4. ASSUME NEW s \in Stmts, Blocked(s)
      PROVE  StatementTypes
  BY <1>4 DEF Blocked, StepIsBusy, Becomes, TypeOK, StatementTypes
<1>5. ASSUME NEW s \in Reads, Found(s)
      PROVE  StatementTypes
  <2>1. work.media[Guid] \in Nat
    BY <1>5, StatementIs DEF Found, Using, TypeOK, TableOK, Tables
  <2>2. Largest(StackIds(work)) \in Nat
    BY IdsAreNat, LargestIs DEF TypeOK
  <2>3. rowid' \in Nat
    BY <1>5, <2>1, <2>2 DEF Found, TypeOK
  <2>4. stmt' = [stmt EXCEPT ![s] = "fresh"] /\ UNCHANGED <<disk, work>>
    BY <1>5 DEF Found, Becomes
  <2> QED
    BY <2>3, <2>4 DEF TypeOK, StatementTypes
<1>6. ASSUME NEW s \in Writes \ {"ADD"}, Wrote(s)
      PROVE  StatementTypes
  BY <1>6, WrittenOK, StepWritesTypes DEF Wrote
<1>7. ASSUME NEW g \in Guids, Inserted(g)
      PROVE  StatementTypes
  <2>1. TableOK([work EXCEPT !.media[g] = NewId(MediaIds(work))])
    BY InsertOK DEF TypeOK
  <2>2. "ADD" \in Writes
    BY DEF Writes
  <2> QED
    BY <1>7, <2>1, <2>2, StepWritesTypes DEF Inserted
<1>8. ASSUME Refused
      PROVE  StatementTypes
  <2>1. "ADD" \in Stmts
    BY DEF Stmts, Writes
  <2> QED
    BY <1>8, <2>1 DEF Refused, Becomes, TypeOK, StatementTypes
<1>9. StatementTypes
  BY <1>3, <1>4, <1>5, <1>6, <1>7, <1>8, UseCases
<1> QED
  BY <1>1, <1>2, <1>9 DEF TypeOK, StatementTypes

(* A client calls with arguments the operation takes.                      *)
LEMMA StartIs ==
  ASSUME TypeOK, NEW o \in world.ops, NEW l \in Arguments(o), Start(o, l)
  PROVE  o \in Operations /\ o # "none" /\ l \in Seq(Guids)
<1>1. o \in Operations
  BY ProviderAssumption DEF TypeOK
<1> QED
  BY <1>1, ArgumentsAre DEF Operations

LEMMA InitTypes ==
  ASSUME Init
  PROVE  TypeOK /\ TodoOK
<1>1. TableOK(disk) /\ TableOK(work)
  BY EmptyOK DEF Init
<1>2. <<>> \in Seq(Guids)
  OBVIOUS
<1> QED
  BY <1>1, <1>2 DEF Init, TypeOK, TodoOK

LEMMA NextTypes ==
  ASSUME TypeOK, TodoOK, [Next]_vars
  PROVE  TypeOK' /\ TodoOK'
<1>1. ASSUME NEW o \in world.ops, NEW l \in Arguments(o), Start(o, l)
      PROVE  TypeOK' /\ TodoOK'
  <2>1. o \in Operations /\ o # "none" /\ l \in Seq(Guids)
    BY <1>1, StartIs
  <2>2. Ends(<<>>, o, l) /\ Ends(Program(o, l), o, l)
    BY <2>1, NothingLeft, ProgramIs
  <2>3. op' = o /\ args' = l /\ e' \in {"ok", "error"} /\ rowid' = 0
        /\ open' \in BOOLEAN
        /\ UNCHANGED <<world, disk, work, stmt, bound, result>>
    BY <1>1 DEF Start, TypeOK
  <2>4. Ends(todo', o, l) /\ (e' = "error" => todo' = <<>>)
    <3>1. CASE o \in Bracketed /\ open
      <4>1. e' = "error" /\ todo' = <<>>
        BY <1>1, <3>1 DEF Start
      <4> QED
        BY <2>2, <4>1
    <3>2. CASE ~(o \in Bracketed /\ open)
      <4>1. e' = "ok" /\ todo' = Program(o, l)
        BY <1>1, <3>2 DEF Start
      <4> QED
        BY <2>2, <4>1
    <3> QED
      BY <3>1, <3>2
  <2>5. TodoOK'
    BY <2>1, <2>3, <2>4 DEF TodoOK
  <2>6. TypeOK'
    BY <2>1, <2>3 DEF TypeOK
  <2> QED
    BY <2>5, <2>6
<1>2. CASE Use
  BY <1>2, UseMoves, UseTypes, MovesTodo
<1>3. CASE Reject
  <2>1. todo # <<>> /\ Moves /\ UNCHANGED <<world, op, args, result>>
    BY <1>3, FailMoves DEF Reject, RejectValue, Using
  <2>2. TodoOK'
    BY <2>1, MovesTodo
  <2>3. TableOK(disk') /\ TableOK(work') /\ open' \in BOOLEAN
    BY <1>3 DEF Reject, RejectValue, Rollback, TypeOK
  <2>4. UNCHANGED <<stmt, bound, rowid>> /\ e' \in {"ok", "error"}
    BY <1>3, <2>1 DEF Reject, RejectValue, Moves
  <2> QED
    BY <2>1, <2>2, <2>3, <2>4 DEF TypeOK
<1>4. ASSUME NEW r \in {"none", "ok", "error"}, Returns(r), UNCHANGED world,
             TableOK(disk'), TableOK(work'), open' \in BOOLEAN,
             bound' \in {NoGuid, bound},
             stmt' \in {stmt, [s \in Stmts |-> "fresh"]}
      PROVE  TypeOK' /\ TodoOK'
  <2>1. <<>> \in Seq(Guids)
    OBVIOUS
  <2> QED
    BY <1>4, <2>1 DEF Returns, TypeOK, TodoOK
<1>5. CASE Commit
  BY <1>4, <1>5 DEF Commit, TypeOK
<1>6. CASE Abort
  <2>1. /\ TableOK(disk') /\ TableOK(work') /\ open' \in BOOLEAN
        /\ UNCHANGED <<world, bound, stmt>>
    BY <1>6 DEF Abort, Rollback, TypeOK
  <2>2. \E r \in {"ok", "error"} : Returns(r)
    BY <1>6 DEF Abort, TypeOK
  <2> QED
    BY <1>4, <2>1, <2>2
<1>7. CASE Return
  BY <1>4, <1>7 DEF Return, TypeOK
<1>8. CASE Reopen
  BY <1>4, <1>8 DEF Reopen, TypeOK
<1>9. CASE UNCHANGED vars
  BY <1>9 DEF vars, TypeOK, TodoOK
<1> QED
  BY <1>1, <1>2, <1>3, <1>5, <1>6, <1>7, <1>8, <1>9 DEF Next
-----------------------------------------------------------------------------
(* A statement enters Active when it is left active, and leaves it when it *)
(* becomes anything else.                                                  *)
LEMMA ActiveIs ==
  ASSUME TypeOK, NEW s \in Stmts, NEW x, Becomes(s, x)
  PROVE  /\ Active' = IF x = "active" THEN Active \union {s} ELSE Active \ {s}
         /\ \A q \in Stmts \ {s} : stmt'[q] = stmt[q]
         /\ stmt'[s] = x
BY DEF TypeOK, Becomes, Active

LEMMA InitConnects ==
  ASSUME Init
  PROVE  ConnectionOK
BY DEF Init, ConnectionOK, Active, Bracketed

LEMMA UseConnects ==
  ASSUME TypeOK, TodoOK, ConnectionOK, Use
  PROVE  ConnectionOK'
<1> DEFINE Clean == ~open /\ Active = {} => work = disk
           Idle == NoLocks => Active = {}
           Reset == \A q \in Stmts \ {"ADD"} : stmt[q] \in {"fresh", "active"}
<1>1. /\ UNCHANGED <<world, op, args, open, result>>
      /\ e = "ok" /\ op \in Operations
  BY UseMoves, StatementIs
<1>2. Clean /\ Idle /\ Reset
  BY DEF ConnectionOK
<1>3. SUFFICES Clean' /\ Idle' /\ Reset'
  BY <1>1 DEF ConnectionOK, NoLocks
<1>4. ASSUME NEW s \in Stmts, Reported(s)
      PROVE  Clean' /\ Idle' /\ Reset'
  <2>1. /\ Active' = Active \ {s}
        /\ \A q \in Stmts \ {s} : stmt'[q] = stmt[q]
        /\ stmt'[s] = "fresh"
    BY <1>4, ActiveIs DEF Reported, ResetFails
  <2>2. /\ work' = IF Active = {s} /\ ~open THEN disk ELSE work
        /\ disk' = disk
    BY <1>4 DEF Reported, ResetFails
  <2>3. Clean'
    BY <1>1, <1>2, <2>1, <2>2
  <2> QED
    BY <1>1, <1>2, <2>1, <2>3 DEF NoLocks
<1>5. ASSUME NEW s \in Stmts, Blocked(s)
      PROVE  Clean' /\ Idle' /\ Reset'
  <2>1. s \in world.busy /\ Becomes(s, "active")
    BY <1>5 DEF Blocked, StepIsBusy
  <2>2. /\ s \in Active'
        /\ \A q \in Stmts \ {s} : stmt'[q] = stmt[q]
        /\ stmt'[s] = "active"
    BY <2>1, ActiveIs
  <2> QED
    BY <1>1, <1>2, <2>1, <2>2 DEF NoLocks
<1>6. ASSUME NEW s \in Reads, Found(s)
      PROVE  Clean' /\ Idle' /\ Reset'
  <2>1. s \in Stmts /\ Becomes(s, "fresh") /\ UNCHANGED <<work, disk>>
        /\ s \notin Active
    BY <1>6 DEF Found, Stmts, Resets, Active
  <2>2. /\ Active' = Active
        /\ \A q \in Stmts \ {s} : stmt'[q] = stmt[q]
        /\ stmt'[s] = "fresh"
    BY <2>1, ActiveIs
  <2> QED
    BY <1>1, <1>2, <2>1, <2>2 DEF NoLocks
<1>7. ASSUME NEW s \in Writes, NEW t, StepWrites(s, t)
      PROVE  Clean' /\ Idle' /\ Reset'
  <2>1. s \in Stmts
    BY DEF Stmts
  <2>2. CASE /\ open \/ Active \ {s} # {}
             /\ Becomes(s, Ended(s))
    <3>1. /\ Active' = Active \ {s}
          /\ \A q \in Stmts \ {s} : stmt'[q] = stmt[q]
          /\ stmt'[s] = Ended(s)
      BY <2>1, <2>2, ActiveIs DEF Ended
    <3> QED
      BY <1>1, <1>2, <2>2, <3>1 DEF NoLocks, Ended
  <2>3. CASE /\ disk' = t
             /\ Becomes(s, Ended(s))
    <3>1. /\ Active' = Active \ {s}
          /\ \A q \in Stmts \ {s} : stmt'[q] = stmt[q]
          /\ stmt'[s] = Ended(s)
      BY <2>1, <2>3, ActiveIs DEF Ended
    <3>2. work' = disk'
      BY <1>7, <2>3 DEF StepWrites
    <3> QED
      BY <1>1, <1>2, <3>1, <3>2 DEF NoLocks, Ended
  <2>4. CASE "commit" \in world.busy /\ Becomes(s, "active")
    <3>1. /\ s \in Active'
          /\ \A q \in Stmts \ {s} : stmt'[q] = stmt[q]
          /\ stmt'[s] = "active"
      BY <2>1, <2>4, ActiveIs
    <3> QED
      BY <1>1, <1>2, <2>4, <3>1 DEF NoLocks
  <2> QED
    BY <1>7, <2>2, <2>3, <2>4 DEF StepWrites
<1>8. ASSUME NEW s \in Writes \ {"ADD"}, Wrote(s)
      PROVE  Clean' /\ Idle' /\ Reset'
  BY <1>7, <1>8 DEF Wrote
<1>9. ASSUME NEW g \in Guids, Inserted(g)
      PROVE  Clean' /\ Idle' /\ Reset'
  BY <1>7, <1>9 DEF Inserted, Writes
<1>10. ASSUME Refused
       PROVE  Clean' /\ Idle' /\ Reset'
  <2>1. open' /\ UNCHANGED world
    BY <1>1, <1>10 DEF Refused, ConnectionOK, Bracketed
  <2>2. "ADD" \in Stmts
    BY DEF Stmts, Writes
  <2>3. CASE Becomes("ADD", "failed")
    <3>1. /\ Active' \subseteq Active
          /\ \A q \in Stmts \ {"ADD"} : stmt'[q] = stmt[q]
      BY <2>2, <2>3, ActiveIs
    <3> QED
      BY <1>2, <2>1, <3>1 DEF NoLocks
  <2>4. CASE UNCHANGED stmt
    BY <1>2, <2>1, <2>4 DEF NoLocks, Active
  <2> QED
    BY <1>10, <2>3, <2>4 DEF Refused
<1> QED
  BY <1>4, <1>5, <1>6, <1>8, <1>9, <1>10, UseCases

LEMMA NextConnects ==
  ASSUME TypeOK, TodoOK, ConnectionOK, [Next]_vars
  PROVE  ConnectionOK'
<1>1. ASSUME NEW o \in world.ops, NEW l \in Arguments(o), Start(o, l)
      PROVE  ConnectionOK'
  <2>1. open' = (open \/ o \in Bracketed) /\ op' = o /\ op = "none"
        /\ UNCHANGED <<world, disk, work, stmt>>
    BY <1>1 DEF Start
  <2>2. "none" \notin Bracketed
    BY DEF Bracketed
  <2> QED
    BY <2>1, <2>2 DEF ConnectionOK, Active, NoLocks
<1>2. CASE Use
  BY <1>2, UseConnects
<1>3. CASE Reject
  <2>1. e' = "error" /\ Rollback /\ UNCHANGED <<world, op, disk, stmt>>
    BY <1>3 DEF Reject, RejectValue, Fail
  <2> QED
    BY <2>1 DEF ConnectionOK, Active, NoLocks, Rollback, CanEnd
<1>4. CASE Commit
  <2>1. op' = "none" /\ UNCHANGED <<world, work, stmt>>
        /\ op \in Bracketed /\ e = "ok"
    BY <1>4 DEF Commit, Returns
  <2>2. CASE CanEnd /\ disk' = work /\ open' = FALSE
    BY <2>1, <2>2 DEF ConnectionOK, Active, NoLocks, Bracketed
  <2>3. CASE /\ ~CanEnd \/ ("commit" \in world.busy /\ work # disk)
             /\ UNCHANGED <<disk, open>>
    <3>1. ~NoLocks
      BY <2>1, <2>3 DEF ConnectionOK, NoLocks, CanEnd
    <3> QED
      BY <2>1, <2>3, <3>1 DEF ConnectionOK, Active, NoLocks, Bracketed
  <2> QED
    BY <1>4, <2>2, <2>3 DEF Commit
<1>5. CASE Abort
  <2>1. op' = "none" /\ Rollback /\ UNCHANGED <<world, disk, stmt>>
    BY <1>5 DEF Abort, Returns
  <2> QED
    BY <2>1 DEF ConnectionOK, Active, NoLocks, Rollback, CanEnd, Bracketed
<1>6. CASE Return
  <2>1. op' = "none" /\ UNCHANGED <<world, disk, work, open, stmt>>
        /\ op \notin Bracketed
    BY <1>6 DEF Return, Returns
  <2> QED
    BY <2>1 DEF ConnectionOK, Active, NoLocks, Bracketed
<1>7. CASE Reopen
  <2>1. op' = "none" /\ work' = disk' /\ open' = FALSE /\ UNCHANGED world
        /\ stmt' = [s \in Stmts |-> "fresh"]
    BY <1>7 DEF Reopen, Returns
  <2> QED
    BY <2>1 DEF ConnectionOK, Active, NoLocks, Bracketed
<1>8. CASE UNCHANGED vars
  BY <1>8 DEF vars, ConnectionOK, Active, NoLocks
<1> QED
  BY <1>1, <1>2, <1>3, <1>4, <1>5, <1>6, <1>7, <1>8 DEF Next
-----------------------------------------------------------------------------
(* A statement that writes leaves its result to this connection, and in    *)
(* the file where it commits itself.                                       *)
LEMMA StepWritesIs ==
  ASSUME NEW s, NEW t, StepWrites(s, t)
  PROVE  /\ work' = t /\ rowid' = rowid
         /\ Succeed \/ Fail
         /\ disk' = disk \/ (disk' = t /\ Succeed /\ ~open /\ Active \ {s} = {})
         /\ NoLocks => Succeed /\ (~open /\ Active = {} => disk' = t)
BY DEF StepWrites, NoLocks

(* An add without an error has its row.                                    *)
LEMMA NextAdds ==
  ASSUME TypeOK, TodoOK, AddOK, [Next]_vars
  PROVE  AddOK'
<1>1. ASSUME NEW o \in world.ops, NEW l \in Arguments(o), Start(o, l)
      PROVE  AddOK'
  <2>1. o \in Operations
    BY <1>1, StartIs
  <2>2. CASE o = "add" /\ e' = "ok"
    <3>1. todo' = Program(o, l)
      BY <1>1, <2>2 DEF Start
    <3>2. Len(todo') = 1
      BY <2>1, <2>2, <3>1, ProgramIs DEF Length
    <3>3. todo' # <<>>
      BY <3>2
    <3> QED
      BY <3>3 DEF AddOK
  <2>3. op' = o
    BY <1>1 DEF Start
  <2> QED
    BY <2>2, <2>3 DEF AddOK
<1>2. CASE Use
  <2>1. /\ UNCHANGED <<op, args>> /\ todo # <<>>
    BY <1>2, UseMoves
  <2> SUFFICES ASSUME op = "add", todo' = <<>>, e' = "ok"
               PROVE  work'.media[args[1]] # 0
    BY <2>1 DEF AddOK
  <2>2. ~Fail
    BY DEF Fail
  <2>3. ASSUME NEW s, Using(s)
        PROVE  s = "ADD"
    BY <2>1, <2>3, Users, StatementIs DEF Name
  <2>4. PICK g \in Guids : Inserted(g)
    <3>1. ASSUME NEW s \in Stmts, Reported(s)
          PROVE  FALSE
      BY <2>2, <3>1 DEF Reported, ResetFails
    <3>2. ASSUME NEW s \in Stmts, Blocked(s)
          PROVE  FALSE
      BY <2>2, <3>2 DEF Blocked
    <3>3. ASSUME NEW s \in Reads, Found(s)
          PROVE  FALSE
      BY <2>3, <3>3 DEF Found, Reads
    <3>4. ASSUME NEW s \in Writes \ {"ADD"}, Wrote(s)
          PROVE  FALSE
      BY <2>3, <3>4 DEF Wrote
    <3>5. ~Refused
      BY <2>2 DEF Refused
    <3> QED
      BY <1>2, <3>1, <3>2, <3>3, <3>4, <3>5, UseCases
  <2>5. g = args[1]
    BY <2>4 DEF Inserted
  <2>6. work' = [work EXCEPT !.media[g] = NewId(MediaIds(work))]
    BY <2>4, StepWritesIs DEF Inserted
  <2>7. NewId(MediaIds(work)) > 0 /\ NewId(MediaIds(work)) \in Nat
    BY IdsAreNat, NewIdIs DEF TypeOK
  <2>8. work.media \in [Guids -> Nat] /\ work \in Tables
    BY DEF TypeOK, TableOK, Tables
  <2> DEFINE id == NewId(MediaIds(work))
  <2> HIDE DEF id
  <2>9. work'.media[g] = id
    BY <2>6, <2>8 DEF id, Tables
  <2> QED
    BY <2>5, <2>7, <2>9 DEF id
<1>3. CASE Reject
  BY <1>3 DEF Reject, RejectValue, Fail, AddOK
<1>4. CASE Commit \/ Abort \/ Return \/ Reopen
  BY <1>4 DEF Commit, Abort, Return, Reopen, Returns, AddOK
<1>5. CASE UNCHANGED vars
  BY <1>5 DEF vars, AddOK
<1> QED
  BY <1>1, <1>2, <1>3, <1>4, <1>5 DEF Next
-----------------------------------------------------------------------------
(* What each statement does to the rows.                                   *)
LEMMA RowsWeaker ==
  ASSUME NEW t, NEW S, NEW T, RowsOK(t, S), S \subseteq T
  PROVE  RowsOK(t, T)
BY DEF RowsOK

LEMMA RowsOfEmpty == RowsOK(EmptyTables, {})
BY DEF RowsOK, EmptyTables

LEMMA RowsInserted ==
  ASSUME NEW t, TableOK(t), RowsOK(t, {}), NEW g \in Guids, t.media[g] = 0
  PROVE  RowsOK([t EXCEPT !.media[g] = NewId(MediaIds(t))], {})
<1> DEFINE id == NewId(MediaIds(t))
           u == [t EXCEPT !.media[g] = id]
<1>1. id \in Nat /\ id > 0 /\ \A x \in MediaIds(t) : x < id
  BY IdsAreNat, NewIdIs
<1>2. \A h \in Guids : t.media[h] \in Nat /\ t.media[h] < id
  BY <1>1 DEF TableOK, Tables, MediaIds
<1> HIDE DEF id
<1>3. /\ u.meta = t.meta /\ u.thumb = t.thumb
      /\ u.media \in [Guids -> Nat]
      /\ u.media[g] = id /\ \A h \in Guids \ {g} : u.media[h] = t.media[h]
  BY <1>1 DEF TableOK, Tables
<1>4. t.thumb \subseteq Guids /\ \A r \in t.meta : r[3] \in Guids
  BY DEF TableOK, Tables
<1> HIDE DEF u
<1>5. RowsOK(u, {})
  <2>1. \A h, k \in Guids : u.media[h] = u.media[k] /\ u.media[h] # 0 => h = k
    <3> TAKE h, k \in Guids
    <3>1. CASE h = g \/ k = g
      BY <1>2, <1>3, <3>1
    <3>2. CASE h # g /\ k # g
      BY <1>3, <3>2 DEF RowsOK
    <3> QED
      BY <3>1, <3>2
  <2>2. \A h \in u.thumb : u.media[h] # 0
    BY <1>1, <1>3, <1>4 DEF RowsOK
  <2>3. \A r \in u.meta : r[1] # 0 => u.media[r[3]] = r[1]
    BY <1>3, <1>4 DEF RowsOK
  <2> QED
    BY <2>1, <2>2, <2>3 DEF RowsOK
<1> QED
  BY <1>5 DEF u, id

LEMMA RowsDeleted ==
  ASSUME NEW t, TableOK(t), RowsOK(t, {}), NEW g \in Guids, t.media[g] # 0
  PROVE  LET u == [t EXCEPT !.media[g] = 0, !.thumb = @ \ {g}]
         IN /\ RowsOK(u, {t.media[g]})
            /\ \A h \in Guids : u.media[h] # t.media[g]
            /\ u.media[g] = 0
<1> DEFINE u == [t EXCEPT !.media[g] = 0, !.thumb = @ \ {g}]
<1>1. /\ u.meta = t.meta /\ u.thumb = t.thumb \ {g}
      /\ u.media \in [Guids -> Nat]
      /\ u.media[g] = 0 /\ \A h \in Guids \ {g} : u.media[h] = t.media[h]
  BY DEF TableOK, Tables
<1>2. t.thumb \subseteq Guids /\ \A r \in t.meta : r[3] \in Guids
  BY DEF TableOK, Tables
<1> SUFFICES /\ RowsOK(u, {t.media[g]})
             /\ \A h \in Guids : u.media[h] # t.media[g]
             /\ u.media[g] = 0
  OBVIOUS
<1> HIDE DEF u
<1> QED
  BY <1>1, <1>2 DEF RowsOK

LEMMA RowsKept ==
  ASSUME NEW t, NEW u, NEW S, NEW T, RowsOK(t, S),
         u.media = t.media, u.thumb \subseteq t.thumb, u.meta \subseteq t.meta,
         \A r \in u.meta : r[1] \in S => r[1] \in T
  PROVE  RowsOK(u, T)
BY DEF RowsOK

(* A remove meets no error while it is whole: it is in no transaction, and *)
(* every statement of it commits itself.                                   *)
LEMMA RemoveRuns ==
  ASSUME TypeOK, TodoOK, ConnectionOK, Use, RemoveIsWhole, op = "remove"
  PROVE  /\ NoLocks /\ ~open /\ Active = {} /\ work = disk
         /\ ~Refused
         /\ \A s \in Stmts : ~Reported(s) /\ ~Blocked(s)
         /\ \A g \in Guids : ~Inserted(g)
<1>1. NoLocks /\ ~open /\ Active = {} /\ work = disk
  BY DEF RemoveIsWhole, TypeOK, ConnectionOK, Bracketed
<1>2. ~Refused /\ \A g \in Guids : ~Inserted(g)
  BY DEF Refused, Inserted
<1>3. ASSUME NEW s \in Stmts, Reported(s)
      PROVE  FALSE
  <2>1. Using(s) /\ stmt[s] \in {"failed", "active"}
    BY <1>3 DEF Reported, ResetFails
  <2>2. s # "ADD"
    BY <2>1, Users, UseMoves
  <2>3. s \notin Active
    BY <1>1
  <2> QED
    BY <2>1, <2>2, <2>3 DEF ConnectionOK, Active
<1>4. ASSUME NEW s \in Stmts, Blocked(s)
      PROVE  FALSE
  BY <1>1, <1>4 DEF Blocked, StepIsBusy, NoLocks
<1> QED
  BY <1>1, <1>2, <1>3, <1>4

(* The statements of remove: find the id, delete the image, delete its     *)
(* metadata.                                                               *)
RemoveFinds ==
  LET id == work.media[args[1]]
  IN /\ Len(todo) = 3
     /\ rowid' = id
     /\ Len(todo') = IF id # 0 THEN 2 ELSE 1
     /\ UNCHANGED <<disk, work>>

RemoveDeletes ==
  /\ Len(todo) = 2
  /\ work' = [work EXCEPT !.media[args[1]] = 0, !.thumb = @ \ {args[1]}]
  /\ disk' = work'
  /\ rowid' = rowid
  /\ Len(todo') = 1

RemoveCleans ==
  /\ Len(todo) = 1
  /\ work' = [work EXCEPT !.meta = {r \in @ : r[1] # rowid}]
  /\ disk' = work'
  /\ rowid' = rowid
  /\ Len(todo') = 0

LEMMA RemoveSteps ==
  ASSUME TypeOK, TodoOK, ConnectionOK, Use, RemoveIsWhole, op = "remove"
  PROVE  /\ UNCHANGED <<world, op, args>> /\ args[1] \in Guids
         /\ work = disk /\ e' = "ok"
         /\ RemoveFinds \/ RemoveDeletes \/ RemoveCleans
<1> DEFINE g == args[1]
           n == Len(todo)
<1>1. /\ NoLocks /\ ~open /\ Active = {} /\ work = disk
      /\ UNCHANGED <<world, op, args>> /\ todo # <<>>
      /\ n \in {1, 2, 3} /\ g \in Guids /\ e = "ok"
  <2>1. UNCHANGED <<world, op, args>> /\ todo # <<>>
    BY UseMoves
  <2>2. n \in Nat /\ n > 0 /\ n <= Length("remove", args) /\ g \in Guids /\ e = "ok"
    BY <2>1, StatementIs
  <2>3. Length("remove", args) = 3
    BY DEF Length
  <2>4. NoLocks /\ ~open /\ Active = {} /\ work = disk
    BY RemoveRuns
  <2>5. n \in {1, 2, 3}
    <3> HIDE DEF n
    <3> QED
      BY <2>2, <2>3
  <2> QED
    BY <2>1, <2>2, <2>4, <2>5
<1>2. op \in Operations /\ args \in Arguments(op) /\ Ends(todo, op, args)
  BY <1>1, StatementIs DEF TodoOK, Operations
<1>3. PICK s \in Stmts : \/ s \in Reads /\ Found(s)
                         \/ s \in Writes \ {"ADD"} /\ Wrote(s)
  BY RemoveRuns, UseCases DEF Stmts
<1>4. Using(s)
  BY <1>3 DEF Found, Wrote
<1>5. s = Name("remove", args, n)
  BY <1>1, <1>4, StatementIs
<1>6. Len(Tail(todo)) = n - 1 /\ Ends(Tail(todo), op, args)
  BY <1>1, <1>2, EndOfProgram
<1> SUFFICES e' = "ok" /\ (RemoveFinds \/ RemoveDeletes \/ RemoveCleans)
  BY <1>1
<1>7. CASE n = 3
  <2>1. s = "MEDIA_ID" /\ Guid = g
    BY <1>1, <1>4, <1>5, <1>7, Users DEF Name
  <2>2. Found(s)
    BY <1>3, <2>1 DEF Writes
  <2>3. rowid' = work.media[g] /\ UNCHANGED <<disk, work>>
    BY <2>1, <2>2 DEF Found
  <2>4. HasRow(s) <=> work.media[g] # 0
    BY <2>1 DEF HasRow
  <2>5. /\ IF work.media[g] # 0 THEN todo' = Tail(todo) ELSE todo' = Tail(Tail(todo))
        /\ e' = e
    BY <2>1, <2>2, <2>4 DEF Found, Succeed
  <2>6. Len(Tail(todo)) = 2 /\ Len(Tail(Tail(todo))) = 1
    <3> DEFINE q == Tail(todo)
    <3>1. Ends(q, op, args) /\ Len(q) = 2
      BY <1>6, <1>7
    <3> HIDE DEF q
    <3>2. q # <<>>
      BY <3>1
    <3>3. Len(Tail(q)) = Len(q) - 1
      BY <1>2, <3>1, <3>2, EndOfProgram
    <3> QED
      BY <3>1, <3>3 DEF q
  <2> QED
    BY <1>1, <1>7, <2>3, <2>5, <2>6 DEF RemoveFinds
<1>8. ASSUME n \in {1, 2}
      PROVE  /\ work' = Written(s, work, n) /\ disk' = work' /\ rowid' = rowid
             /\ Len(todo') = n - 1 /\ e' = "ok"
  <2>1. s \notin Reads
    BY <1>5, <1>8 DEF Name, Reads
  <2>2. Wrote(s)
    BY <1>3, <2>1
  <2> DEFINE t == Written(s, work, n)
  <2>3. StepWrites(s, t)
    BY <2>2 DEF Wrote
  <2> HIDE DEF t
  <2>4. work' = t /\ disk' = t /\ rowid' = rowid /\ Succeed
    BY <1>1, <2>3, StepWritesIs
  <2> QED
    BY <1>1, <1>6, <2>4 DEF Succeed, t
<1>9. CASE n = 2
  <2>1. s = "DEL" /\ Guid = g
    BY <1>1, <1>4, <1>5, <1>9, Users DEF Name
  <2> QED
    BY <1>8, <1>9, <2>1 DEF Written, RemoveDeletes
<1>10. CASE n = 1
  <2>1. s = "DEL_META"
    BY <1>5, <1>10 DEF Name
  <2> QED
    BY <1>8, <1>10, <2>1 DEF Written, RemoveCleans
<1> QED
  BY <1>1, <1>7, <1>9, <1>10

LEMMA RemoveData ==
  ASSUME TypeOK, TodoOK, ConnectionOK, DataOK, Use, RemoveIsWhole, op = "remove"
  PROVE  DataOK'
<1> DEFINE g == args[1]
<1>1. /\ UNCHANGED <<world, op, args>> /\ g \in Guids /\ work = disk
      /\ RemoveFinds \/ RemoveDeletes \/ RemoveCleans
  BY RemoveSteps
<1>2. RowsOK(work, Orphans) /\ RowidOK
  BY DEF DataOK
<1>3. TableOK(work) /\ work.media[g] \in Nat
  BY <1>1 DEF TypeOK, TableOK, Tables
<1> SUFFICES RowsOK(disk', Orphans') /\ RowsOK(work', Orphans') /\ RowidOK'
  BY DEF DataOK
<1>4. CASE RemoveFinds
  <2>1. Orphans = {}
    BY <1>4 DEF RemoveFinds, Orphans
  <2>2. RowsOK(work', Orphans')
    BY <1>2, <1>4, <2>1, RowsWeaker DEF RemoveFinds
  <2>3. op' = "remove" /\ args' = args /\ work'.media = work.media
    BY <1>1, <1>4 DEF RemoveFinds
  <2>4. work.media[g] # 0 => RowidOK'
    BY <1>4, <2>3 DEF RowidOK, RemoveFinds
  <2>5. work.media[g] = 0 => RowidOK'
    BY <1>4, <2>3 DEF RowidOK, RemoveFinds
  <2> QED
    BY <1>1, <1>4, <2>2, <2>4, <2>5 DEF RemoveFinds
<1>5. CASE RemoveDeletes
  <2> DEFINE u == [work EXCEPT !.media[g] = 0, !.thumb = @ \ {g}]
  <2>1. Orphans = {} /\ rowid = work.media[g] /\ rowid # 0
    BY <1>2, <1>5 DEF Orphans, RowidOK, RemoveDeletes
  <2>2. RowsOK(work, {}) /\ work.media[g] # 0 /\ g \in Guids /\ TableOK(work)
    BY <1>1, <1>2, <1>3, <2>1
  <2>3. RowsOK(u, {work.media[g]}) /\ \A h \in Guids : u.media[h] # work.media[g]
    BY ONLY <2>2, RowsDeleted
  <2>4. work' = u /\ disk' = u /\ rowid' = rowid /\ Len(todo') = 1
    BY <1>5 DEF RemoveDeletes
  <2>5. Orphans' = {rowid}
    BY <1>1, <1>5 DEF Orphans, RemoveDeletes
  <2> HIDE DEF u
  <2> QED
    BY <1>1, <2>1, <2>3, <2>4, <2>5 DEF RowidOK
<1>6. CASE RemoveCleans
  <2> DEFINE u == [work EXCEPT !.meta = {r \in @ : r[1] # rowid}]
  <2>1. work' = u /\ disk' = u
    BY <1>6 DEF RemoveCleans
  <2>2. RowsOK(u, {})
    <3>1. /\ u.media = work.media /\ u.thumb = work.thumb
          /\ u.meta = {r \in work.meta : r[1] # rowid}
      BY <1>3 DEF TableOK, Tables
    <3>2. Orphans = {rowid}
      BY <1>6 DEF Orphans, RemoveCleans
    <3> HIDE DEF u
    <3> QED
      BY <1>2, <3>1, <3>2, RowsKept
  <2>3. Orphans' = {} /\ RowidOK'
    BY <1>1, <1>6 DEF Orphans, RowidOK, RemoveCleans
  <2> HIDE DEF u
  <2> QED
    BY <2>1, <2>2, <2>3
<1> QED
  BY <1>1, <1>4, <1>5, <1>6

(* Every other operation writes rows of images that are there.             *)
LEMMA RowsWritten ==
  ASSUME TypeOK, TodoOK, RowsOK(work, {}), RowidOK, op # "remove",
         NEW s \in Writes \ {"ADD"}, Using(s)
  PROVE  /\ RowsOK(Written(s, work, Len(todo)), {})
         /\ Written(s, work, Len(todo)).media = work.media
<1> DEFINE n == Len(todo)
           t == Written(s, work, n)
<1> SUFFICES RowsOK(t, {}) /\ t.media = work.media
  OBVIOUS
<1>1. todo # <<>> /\ Guid \in Guids /\ n \in Nat /\ n > 0
  BY StatementIs DEF Using
<1>2. /\ work \in Tables
      /\ work.media \in [Guids -> Nat]
      /\ work.thumb \subseteq Guids
  BY DEF TypeOK, TableOK, Tables
<1>3. s # "DEL"
  BY <1>1, Users
<1>4. CASE s \in {"DEL_META", "STACK_ADD", "STACK_REMOVE", "STACK_DELETE"}
  <2>1. /\ t.media = work.media /\ t.thumb = work.thumb
        /\ t.meta \subseteq work.meta
    BY <1>2, <1>4 DEF Written, Tables
  <2> HIDE DEF t
  <2> QED
    BY <2>1, RowsKept
<1>5. CASE s = "ADD_META"
  <2>1. rowid = work.media[Guid]
    <3>1. /\ Guid = args[1]
          /\ (op = "updateMetadata" /\ n <= Values) \/ (op = "updateInvalid" /\ n = 2)
      BY <1>1, <1>5, Users
    <3>2. Values \in Nat
      BY ProviderAssumption
    <3>3. \/ op = "updateMetadata" /\ n < Values + 2
          \/ op = "updateInvalid" /\ n < 4
      <4> HIDE DEF n
      <4> QED
        BY <1>1, <3>1, <3>2
    <3> QED
      BY <1>1, <3>1, <3>3 DEF RowidOK
  <2>2. /\ t.media = work.media /\ t.thumb = work.thumb
        /\ t.meta = work.meta \union {<<rowid, n, Guid>>}
    BY <1>2, <1>5 DEF Written, Tables
  <2> HIDE DEF t, n
  <2> QED
    BY <2>1, <2>2 DEF RowsOK
<1>6. CASE s = "UPDATE_BLOB"
  <2>1. /\ t.media = work.media /\ t.meta = work.meta
        /\ t.thumb = work.thumb \union
                       ({Guid} \ {g \in Guids : work.media[g] = 0})
    BY <1>2, <1>6 DEF Written, Tables
  <2> HIDE DEF t
  <2> QED
    BY <1>1, <1>2, <2>1 DEF RowsOK
<1> QED
  BY <1>3, <1>4, <1>5, <1>6 DEF Writes

LEMMA UseData ==
  ASSUME TypeOK, TodoOK, ConnectionOK, DataOK, Use, RemoveIsWhole
  PROVE  DataOK'
<1>1. CASE op = "remove"
  BY <1>1, RemoveData
<1>2. CASE op # "remove"
  <2>1. UNCHANGED <<world, op, args>> /\ todo # <<>>
    BY UseMoves
  <2>2. Orphans = {} /\ Orphans' = {}
    BY <1>2, <2>1 DEF Orphans
  <2>3. RowsOK(disk, {}) /\ RowsOK(work, {}) /\ RowidOK
    BY <2>2 DEF DataOK
  <2> DEFINE Rows == RowsOK(disk', {}) /\ RowsOK(work', {})
             Ids == (op \in {"updateMetadata", "updateInvalid"} /\ todo' # <<>>)
                      => rowid' = work'.media[args[1]]
  <2>4. SUFFICES Rows /\ Ids
    BY <1>2, <2>1, <2>2 DEF DataOK, RowidOK
  <2>5. ASSUME NEW s \in Stmts, Reported(s) \/ Blocked(s)
        PROVE  Rows /\ Ids
    <3>1. Rows
      BY <2>3, <2>5 DEF Reported, ResetFails, Blocked, StepIsBusy
    <3>2. op # "bumpStackItems" => todo' = <<>>
      BY <2>5 DEF Reported, ResetFails, Blocked, Fail
    <3> QED
      BY <3>1, <3>2
  <2>6. ASSUME NEW s \in Reads, Found(s)
        PROVE  Rows /\ Ids
    <3>1. Using(s) /\ UNCHANGED <<disk, work>>
      BY <2>6 DEF Found
    <3>2. ASSUME op \in {"updateMetadata", "updateInvalid"}
          PROVE  rowid' = work.media[args[1]]
      <4>1. s = "MEDIA_ID" /\ Guid = args[1]
        BY <2>1, <3>1, <3>2, Users DEF Reads
      <4> QED
        BY <2>6, <4>1 DEF Found
    <3> QED
      BY <2>3, <3>1, <3>2
  <2>7. ASSUME NEW s \in Writes \ {"ADD"}, Wrote(s)
        PROVE  Rows /\ Ids
    <3> DEFINE t == Written(s, work, Len(todo))
    <3>1. Using(s) /\ StepWrites(s, t)
      BY <2>7 DEF Wrote
    <3>2. RowsOK(t, {}) /\ t.media = work.media
      BY <1>2, <2>3, <3>1, RowsWritten
    <3> HIDE DEF t
    <3>3. work' = t /\ rowid' = rowid /\ disk' \in {disk, t}
      BY <3>1, StepWritesIs
    <3>4. ASSUME op \in {"updateMetadata", "updateInvalid"}
          PROVE  rowid = work.media[args[1]]
      <4> DEFINE n == Len(todo)
      <4>1. Values \in Nat /\ n \in Nat
        BY <2>1, StatementIs, ProviderAssumption
      <4>2. \/ op = "updateMetadata" /\ n \in {Values + 1, Values}
            \/ op = "updateMetadata" /\ n <= Values
            \/ op = "updateInvalid" /\ n \in {2, 3}
        BY <2>1, <3>1, <3>4, Users DEF Writes
      <4>3. \/ op = "updateMetadata" /\ n < Values + 2
            \/ op = "updateInvalid" /\ n < 4
        <5> HIDE DEF n
        <5> QED
          BY <4>1, <4>2
      <4> QED
        BY <2>1, <2>3, <4>3 DEF RowidOK
    <3> QED
      BY <2>3, <3>2, <3>3, <3>4
  <2>8. ASSUME NEW g \in Guids, Inserted(g)
        PROVE  Rows /\ Ids
    <3> DEFINE t == [work EXCEPT !.media[g] = NewId(MediaIds(work))]
    <3>1. RowsOK(t, {})
      BY <2>3, <2>8, RowsInserted DEF TypeOK, Inserted
    <3>2. StepWrites("ADD", t) /\ op \notin {"updateMetadata", "updateInvalid"}
      BY <2>8 DEF Inserted
    <3> HIDE DEF t
    <3> QED
      BY <2>3, <3>1, <3>2, StepWritesIs
  <2>9. ASSUME Refused
        PROVE  Rows /\ Ids
    BY <2>3, <2>9 DEF Refused
  <2> HIDE DEF Rows, Ids
  <2> QED
    BY <2>5, <2>6, <2>7, <2>8, <2>9, UseCases
<1> QED
  BY <1>1, <1>2

LEMMA NextData ==
  ASSUME TypeOK, TodoOK, ConnectionOK, DataOK, [Next]_vars
  PROVE  DataOK'
<1> SUFFICES ASSUME RemoveIsWhole'
             PROVE  DataOK'
  BY DEF DataOK
<1>1. UNCHANGED world
  BY DEF Next, Start, Use, Reject, Commit, Abort, Return, Reopen, vars
<1>2. RemoveIsWhole
  BY <1>1 DEF RemoveIsWhole, NoLocks
<1>3. RowsOK(disk, Orphans) /\ RowsOK(work, Orphans) /\ RowidOK
  BY <1>2 DEF DataOK
<1>4. ASSUME NEW o \in world.ops, NEW l \in Arguments(o), Start(o, l)
      PROVE  DataOK'
  <2>1. o \in Operations /\ o # "none"
    BY <1>4, StartIs
  <2>2. op = "none" /\ op' = o /\ args' = l /\ UNCHANGED <<disk, work>>
    BY <1>4 DEF Start
  <2>3. Len(todo') = Length(o, l) \/ (todo' = <<>> /\ o \in Bracketed)
    <3>1. todo' = Program(o, l) \/ (todo' = <<>> /\ o \in Bracketed)
      BY <1>4 DEF Start
    <3> QED
      BY <2>1, <3>1, ProgramIs
  <2>4. /\ op' = "remove" => Len(todo') = 3
        /\ op' = "updateMetadata" /\ todo' # <<>> => Len(todo') = Values + 2
        /\ op' = "updateInvalid" /\ todo' # <<>> => Len(todo') = 4
    BY <2>2, <2>3 DEF Length, Bracketed
  <2>5. Orphans = {} /\ Orphans' = {}
    BY <2>2, <2>4 DEF Orphans
  <2>6. RowidOK'
    <3>1. Values \in Nat
      BY ProviderAssumption
    <3>2. /\ ~(op' = "remove" /\ Len(todo') = 2)
          /\ ~(op' = "remove" /\ Len(todo') = 1)
          /\ ~(op' = "updateMetadata" /\ todo' # <<>> /\ Len(todo') < Values + 2)
          /\ ~(op' = "updateInvalid" /\ todo' # <<>> /\ Len(todo') < 4)
      BY <2>4, <3>1
    <3> QED
      BY <3>2 DEF RowidOK
  <2> QED
    BY <1>3, <2>2, <2>5, <2>6 DEF DataOK
<1>5. CASE Use
  BY <1>2, <1>5, UseData
<1>6. CASE Reject
  <2>1. todo # <<>> /\ Using("INVALID") /\ UNCHANGED <<op, disk>>
    BY <1>6 DEF Reject, RejectValue, Using
  <2>2. op = "updateInvalid"
    BY <2>1, Users
  <2>3. todo' = <<>> /\ work' \in {work, disk}
    BY <1>6 DEF Reject, RejectValue, Rollback, Fail
  <2>4. Orphans = {} /\ Orphans' = {} /\ RowidOK'
    BY <2>1, <2>2, <2>3 DEF Orphans, RowidOK
  <2> QED
    BY <1>3, <2>1, <2>3, <2>4 DEF DataOK
<1>7. ASSUME Orphans = {}, op' = "none", disk' \in {disk, work},
             work' \in {disk, work}
      PROVE  DataOK'
  <2>1. Orphans' = {} /\ RowidOK'
    BY <1>7 DEF Orphans, RowidOK
  <2> QED
    BY <1>3, <1>7, <2>1 DEF DataOK
<1>8. CASE Commit \/ Abort
  <2>1. Orphans = {}
    BY <1>8 DEF Commit, Abort, Bracketed, Orphans
  <2>2. op' = "none" /\ disk' \in {disk, work} /\ work' \in {disk, work}
    BY <1>8 DEF Commit, Abort, Rollback, Returns
  <2> QED
    BY <1>7, <2>1, <2>2
<1>9. CASE Return
  <2>1. todo = <<>> /\ op' = "none" /\ UNCHANGED <<disk, work>>
    BY <1>9 DEF Return, Returns
  <2>2. Orphans = {}
    BY <2>1 DEF Orphans
  <2> QED
    BY <1>7, <2>1, <2>2
<1>10. CASE Reopen
  <2>1. op' = "none" /\ work' = disk /\ disk' = disk
        /\ (op = "none" \/ world.crashes)
    BY <1>10 DEF Reopen, Returns
  <2>2. Orphans = {}
    BY <1>2, <2>1 DEF Orphans, RemoveIsWhole, TypeOK
  <2> QED
    BY <1>7, <2>1, <2>2
<1>11. CASE UNCHANGED vars
  BY <1>3, <1>11 DEF vars, DataOK, Orphans, RowidOK, RemoveIsWhole, NoLocks
<1> QED
  BY <1>4, <1>5, <1>6, <1>8, <1>9, <1>10, <1>11 DEF Next
-----------------------------------------------------------------------------
(* The connection, the tables and the operation under way are as Inv says. *)
THEOREM ProviderInv == Spec => []Inv
<1>1. Init => Inv
  <2> SUFFICES ASSUME Init
               PROVE  Inv
    OBVIOUS
  <2>1. DataOK
    <3>1. disk = EmptyTables /\ work = EmptyTables /\ op = "none"
      BY DEF Init
    <3>2. Orphans = {} /\ RowidOK
      BY <3>1 DEF Orphans, RowidOK
    <3> QED
      BY <3>1, <3>2, RowsOfEmpty DEF DataOK
  <2>2. AddOK
    BY DEF Init, AddOK
  <2> QED
    BY <2>1, <2>2, InitTypes, InitConnects DEF Inv
<1>2. Inv /\ [Next]_vars => Inv'
  BY NextTypes, NextConnects, NextAdds, NextData DEF Inv
<1> QED
  BY <1>1, <1>2, PTL DEF Spec

(* The tables, ids and prepared statements keep their types, and the ids   *)
(* in use have a largest, whatever fails.                                  *)
THEOREM ProviderTypes == Spec => []TypeOK
<1>1. Inv => TypeOK
  BY DEF Inv
<1> QED
  BY <1>1, ProviderInv, PTL

(* Without locks every operation ends the transaction it began, and leaves *)
(* no statement active and nothing uncommitted.                            *)
THEOREM OperationsEndClean == Spec => []IdleIsClean
<1>1. Inv => IdleIsClean
  BY DEF Inv, ConnectionOK, IdleIsClean, Bracketed
<1> QED
  BY <1>1, ProviderInv, PTL

(* A stored value of the metadata belongs to the image it was read from,   *)
(* although the ids of removed images are used again.                      *)
THEOREM MetadataIsOfItsImage == Spec => []MetadataBelongs
<1>1. Inv => MetadataBelongs
  BY DEF Inv, DataOK, MetadataBelongs, RowsOK, Orphans
<1> QED
  BY <1>1, ProviderInv, PTL

(* An add that reports success has its image in the file.                  *)
THEOREM AddsAreTold == Spec => AddIsTruthful
<1>1. Inv /\ [Next]_vars =>
        [op = "add" /\ op' = "none" /\ result' = "ok"
           => disk'.media[args[1]] # 0]_vars
  <2> SUFFICES ASSUME Inv, Next, op = "add", op' = "none", result' = "ok"
               PROVE  disk'.media[args[1]] # 0
    BY DEF vars
  <2>1. todo = <<>> /\ e = "ok" => work.media[args[1]] # 0
    BY DEF Inv, AddOK
  <2>2. Commit
    <3>1. ASSUME NEW o \in world.ops, NEW l \in Arguments(o), Start(o, l)
          PROVE  FALSE
      BY <3>1 DEF Start
    <3>2. ~Use /\ ~Reject
      BY DEF Use, Reject
    <3>3. ~Abort /\ ~Return /\ ~Reopen
      BY DEF Abort, Return, Reopen, Returns, Bracketed
    <3> QED
      BY <3>1, <3>2, <3>3 DEF Next
  <2> QED
    BY <2>1, <2>2 DEF Commit, Returns
<1> QED
  BY <1>1, ProviderInv, PTL DEF Spec, AddIsTruthful
-----------------------------------------------------------------------------
(* A statement of a transaction leaves the file as it is, and one that     *)
(* meets no error leaves as many statements active as before.              *)
LEMMA ActiveStays ==
  ASSUME TypeOK, NEW s \in Stmts, Resets(s), NEW x, x # "active", Becomes(s, x)
  PROVE  Active' = Active
<1>1. s \notin Active
  BY DEF Resets, Active
<1> QED
  BY <1>1, ActiveIs

LEMMA InTransaction ==
  ASSUME NEW s, NEW t, StepWrites(s, t), open
  PROVE  /\ work' = t /\ rowid' = rowid /\ disk' = disk
         /\ Succeed /\ Becomes(s, Ended(s)) /\ Ended(s) # "active"
BY DEF StepWrites, Ended

LEMMA UseSucceeds ==
  ASSUME TypeOK, TodoOK, ConnectionOK, Use, e' = "ok",
         op \in Bracketed \ {"bumpStackItems"}
  PROVE  /\ Active' = Active /\ disk' = disk
         /\ \/ \E s \in Reads : Found(s)
            \/ \E s \in Writes \ {"ADD"} :
                 /\ Using(s) /\ Succeed /\ rowid' = rowid
                 /\ work' = Written(s, work, Len(todo))
            \/ /\ op = "add" /\ Len(todo) = 1 /\ Succeed
               /\ work.media[args[1]] = 0
               /\ work' = [work EXCEPT !.media[args[1]] = NewId(MediaIds(work))]
<1>1. todo # <<>>
  BY UseMoves
<1>2. e = "ok" /\ open /\ ~Fail
  BY <1>1, StatementIs DEF ConnectionOK, Fail
<1> DEFINE Wrote1 == \E s \in Writes \ {"ADD"} :
                       /\ Using(s) /\ Succeed /\ rowid' = rowid
                       /\ work' = Written(s, work, Len(todo))
           Inserted1 == /\ op = "add" /\ Len(todo) = 1 /\ Succeed
                        /\ work.media[args[1]] = 0
                        /\ work' = [work EXCEPT !.media[args[1]] =
                                                  NewId(MediaIds(work))]
<1>3. ASSUME NEW s \in Stmts, Reported(s) \/ Blocked(s)
      PROVE  FALSE
  BY <1>2, <1>3 DEF Reported, ResetFails, Blocked
<1>4. ASSUME NEW s \in Reads, Found(s)
      PROVE  Active' = Active /\ disk' = disk
  BY <1>4, ActiveStays DEF Found, Stmts
<1>5. ASSUME NEW s \in Writes \ {"ADD"}, Wrote(s)
      PROVE  Active' = Active /\ disk' = disk /\ Wrote1
  <2> DEFINE t == Written(s, work, Len(todo))
  <2>1. Using(s) /\ Resets(s) /\ StepWrites(s, t)
    BY <1>5 DEF Wrote
  <2> HIDE DEF t
  <2>2. /\ work' = t /\ rowid' = rowid /\ disk' = disk
        /\ Succeed /\ Becomes(s, Ended(s)) /\ Ended(s) # "active"
    BY <1>2, <2>1, InTransaction
  <2>3. Active' = Active
    BY <2>1, <2>2, ActiveStays DEF Stmts
  <2> QED
    BY <2>1, <2>2, <2>3 DEF t
<1>6. ASSUME NEW g \in Guids, Inserted(g)
      PROVE  Active' = Active /\ disk' = disk /\ Inserted1
  <2> DEFINE t == [work EXCEPT !.media[g] = NewId(MediaIds(work))]
  <2>1. /\ op = "add" /\ g = args[1] /\ Len(todo) = 1 /\ Resets("ADD")
        /\ work.media[g] = 0 /\ StepWrites("ADD", t)
    BY <1>6 DEF Inserted
  <2> HIDE DEF t
  <2>2. /\ work' = t /\ disk' = disk
        /\ Succeed /\ Becomes("ADD", Ended("ADD")) /\ Ended("ADD") # "active"
    BY <1>2, <2>1, InTransaction
  <2>3. Active' = Active
    BY <2>1, <2>2, ActiveStays DEF Stmts, Writes
  <2> QED
    BY <2>1, <2>2, <2>3 DEF t
<1>7. ~Refused
  BY <1>2 DEF Refused
<1> HIDE DEF Wrote1, Inserted1
<1>8. /\ Active' = Active /\ disk' = disk
      /\ (\E s \in Reads : Found(s)) \/ Wrote1 \/ Inserted1
  BY <1>3, <1>4, <1>5, <1>6, <1>7, UseCases
<1> QED
  BY <1>8 DEF Wrote1, Inserted1

(* The values of an image's metadata are stored last first.                *)
LEMMA MetadataStored ==
  ASSUME NEW w, NEW d, NEW id \in Nat, NEW n \in Nat, n > 0, n <= Values,
         NEW g, Values \in Nat, NEW m,
         {r \in w : r[1] # 0} =
           {r \in d : r[1] # 0 /\ r[1] # id} \union
           {<<id, k, g>> : k \in IF id = 0 THEN {} ELSE (n + 1)..Values},
         m = w \union {<<id, n, g>>}
  PROVE  {r \in m : r[1] # 0} =
           {r \in d : r[1] # 0 /\ r[1] # id} \union
           {<<id, k, g>> : k \in IF id = 0 THEN {} ELSE ((n - 1) + 1)..Values}
<1> DEFINE new == {<<id, k, g>> : k \in IF id = 0 THEN {} ELSE (n + 1)..Values}
           end == {<<id, k, g>> : k \in IF id = 0 THEN {} ELSE ((n - 1) + 1)..Values}
           old == {r \in d : r[1] # 0 /\ r[1] # id}
           row == <<id, n, g>>
<1>1. CASE id = 0
  <2>1. {r \in m : r[1] # 0} = {r \in w : r[1] # 0}
    BY <1>1
  <2> QED
    BY <1>1, <2>1
<1>2. CASE id # 0
  <2>1. ((n - 1) + 1)..Values = {n} \union ((n + 1)..Values)
    OBVIOUS
  <2>2. end = new \union {row}
    BY <1>2, <2>1
  <2>3. {r \in m : r[1] # 0} = {r \in w : r[1] # 0} \union {row}
    BY <1>2
  <2>4. {r \in w : r[1] # 0} = old \union new
    OBVIOUS
  <2> HIDE DEF new, end, old, row
  <2>5. {r \in m : r[1] # 0} = old \union end
    BY <2>2, <2>3, <2>4
  <2> QED
    BY <2>5 DEF old, end
<1> QED
  BY <1>1, <1>2

(* Each statement takes its operation one step further.                    *)
LEMMA UseMetadata ==
  ASSUME TypeOK, TodoOK, ConnectionOK, RowidOK, MetadataProgress, Use,
         e' = "ok", op = "updateMetadata"
  PROVE  MetadataProgress'
<1> DEFINE n == Len(todo)
           g == args[1]
           id == disk.media[g]
           Stored(m, k) ==
             {r \in m : r[1] # 0} =
               {r \in disk.meta : r[1] # 0 /\ r[1] # id} \union
               {<<id, i, g>> : i \in IF id = 0 THEN {} ELSE (k + 1)..Values}
<1>1. UNCHANGED <<op, args>> /\ todo # <<>>
  BY UseMoves
<1>2. /\ g \in Guids /\ n \in Nat /\ n > 0 /\ n <= Values + 2 /\ Values \in Nat
      /\ op \in Operations /\ args \in Arguments(op)
  BY <1>1, StatementIs, ProviderAssumption DEF Length
<1>3. disk' = disk
  BY UseSucceeds DEF Bracketed
<1>4. work \in Tables /\ work.media \in [Guids -> Nat] /\ id \in Nat
  BY <1>2 DEF TypeOK, TableOK, Tables
<1>5. /\ work.media = disk.media /\ work.thumb = disk.thumb
      /\ work.stack = disk.stack
      /\ n > Values => work = disk
      /\ n <= Values => Stored(work.meta, n)
  <2>1. n <= Values => ~(n > Values)
    <3> HIDE DEF n
    <3> QED
      BY <1>2
  <2> QED
    BY <2>1 DEF MetadataProgress
<1>6. SUFFICES /\ work'.media = disk.media /\ work'.thumb = disk.thumb
               /\ work'.stack = disk.stack
               /\ Len(todo') > Values => work' = disk
               /\ ~(Len(todo') > Values) => Stored(work'.meta, Len(todo'))
  BY <1>1, <1>3 DEF MetadataProgress
<1>7. ASSUME Succeed
      PROVE  Len(todo') = n - 1
  <2>1. Ends(todo, op, args)
    BY <1>1, <1>2 DEF TodoOK, Operations
  <2> QED
    BY <1>1, <1>2, <1>7, <2>1, EndOfProgram DEF Succeed
<1>8. Stored(work.meta, Values) <=>
        {r \in work.meta : r[1] # 0} = {r \in disk.meta : r[1] # 0 /\ r[1] # id}
  <2>1. (Values + 1)..Values = {}
    BY <1>2
  <2> QED
    BY <2>1
<1>9. CASE \E s \in Reads : Found(s)
  <2>1. PICK s \in Reads : Found(s)
    BY <1>9
  <2>2. /\ s = "MEDIA_ID" /\ Guid = g /\ n = Values + 2
        /\ UNCHANGED <<disk, work>>
    BY <1>1, <2>1, Users DEF Found, Reads
  <2>3. n > Values
    <3> HIDE DEF n
    <3> QED
      BY <1>2, <2>2
  <2>4. work = disk
    BY <1>5, <2>3
  <2>5. CASE HasRow(s)
    <3>1. Succeed
      BY <2>1, <2>5 DEF Found
    <3>2. Len(todo') = n - 1
      BY <1>7, <3>1
    <3>3. Len(todo') > Values
      <4> HIDE DEF n
      <4> QED
        BY <1>2, <2>2, <3>2
    <3> QED
      BY <2>2, <2>4, <3>3
  <2>6. CASE ~HasRow(s)
    <3>1. id = 0
      BY <2>2, <2>4, <2>6 DEF HasRow
    <3>2. todo' = Tail(Tail(todo))
      BY <2>1, <2>2, <2>6 DEF Found, Fail
    <3>3. Len(todo') = Values
      <4>1. Len(todo') = n - 2
        <5> DEFINE q == Tail(todo)
        <5>1. Ends(q, op, args) /\ Len(q) = n - 1
          BY <1>1, <1>2, EndOfProgram DEF TodoOK, Operations
        <5>2. Len(q) > 0
          <6> HIDE DEF n, q
          <6> QED
            BY <1>2, <2>2, <5>1
        <5>3. q # <<>>
          <6> HIDE DEF q
          <6> QED
            BY <5>2
        <5> HIDE DEF q
        <5>4. Len(Tail(q)) = Len(q) - 1
          BY <1>2, <5>1, <5>3, EndOfProgram
        <5>5. Len(todo') = Len(Tail(q))
          BY <3>2 DEF q
        <5> HIDE DEF n
        <5> QED
          BY <1>2, <5>1, <5>4, <5>5
      <4> HIDE DEF n
      <4> QED
        BY <1>2, <2>2, <4>1
    <3>4. Stored(work.meta, Values)
      <4>1. {r \in work.meta : r[1] # 0}
              = {r \in disk.meta : r[1] # 0 /\ r[1] # id}
        BY <2>4, <3>1
      <4> QED
        BY <1>8, <4>1
    <3> QED
      BY <1>2, <2>2, <2>4, <3>3, <3>4
  <2> QED
    BY <2>5, <2>6
<1>10. CASE \E s \in Writes \ {"ADD"} : /\ Using(s) /\ Succeed /\ rowid' = rowid
                                        /\ work' = Written(s, work, n)
  <2>1. PICK s \in Writes \ {"ADD"} : /\ Using(s) /\ Succeed
                                      /\ work' = Written(s, work, n)
    BY <1>10
  <2>2. \/ s = "DEL_META" /\ n = Values + 1
        \/ s = "ADD_META" /\ n <= Values /\ Guid = g
    BY <1>1, <2>1, Users DEF Writes
  <2>3. Len(todo') = n - 1
    BY <1>7, <2>1
  <2>4. rowid = id
    <3>1. n < Values + 2
      <4> HIDE DEF n
      <4> QED
        BY <1>2, <2>2
    <3> QED
      BY <1>1, <1>5, <3>1 DEF RowidOK
  <2>5. CASE s = "DEL_META"
    <3>1. n = Values + 1 /\ n > Values /\ Len(todo') = Values
      <4>1. n = Values + 1
        BY <2>2, <2>5
      <4> HIDE DEF n
      <4> QED
        BY <1>2, <2>3, <4>1
    <3>2. work = disk
      BY <1>5, <3>1
    <3>3. work' = [work EXCEPT !.meta = {r \in @ : r[1] # rowid}]
      BY <2>1, <2>5 DEF Written
    <3>4. /\ work'.media = work.media /\ work'.thumb = work.thumb
          /\ work'.stack = work.stack
          /\ work'.meta = {r \in disk.meta : r[1] # id}
      BY <1>4, <2>4, <3>2, <3>3 DEF Tables
    <3>5. Stored(work'.meta, Values)
      <4>1. (Values + 1)..Values = {}
        BY <1>2
      <4> QED
        BY <3>4, <4>1
    <3> QED
      BY <1>2, <1>5, <3>1, <3>4, <3>5
  <2>6. CASE s = "ADD_META"
    <3>1. n <= Values /\ Guid = g
      BY <2>2, <2>6
    <3>2. work' = [work EXCEPT !.meta = @ \union {<<id, n, g>>}]
      BY <2>1, <2>4, <2>6, <3>1 DEF Written
    <3>3. /\ work'.media = work.media /\ work'.thumb = work.thumb
          /\ work'.stack = work.stack
          /\ work'.meta = work.meta \union {<<id, n, g>>}
      BY <1>4, <3>2 DEF Tables
    <3>4. Stored(work.meta, n)
      BY <1>5, <3>1
    <3>5. Stored(work'.meta, n - 1)
      <4> HIDE DEF n, id, g
      <4> QED
        BY <1>2, <1>4, <3>1, <3>3, <3>4, MetadataStored
    <3>6. ~(Len(todo') > Values)
      <4> HIDE DEF n
      <4> QED
        BY <1>2, <2>3, <3>1
    <3> QED
      BY <1>5, <2>3, <3>3, <3>5, <3>6
  <2> QED
    BY <2>2, <2>5, <2>6
<1> QED
  BY <1>9, <1>10, UseSucceeds DEF Bracketed

LEMMA UseRemoves ==
  ASSUME TypeOK, TodoOK, ConnectionOK, RemoveProgress, Use,
         e' = "ok", op = "removeStackItems"
  PROVE  RemoveProgress'
<1> DEFINE n == Len(todo)
           k == Len(args)
<1>1. UNCHANGED <<op, args>> /\ todo # <<>>
  BY UseMoves
<1>2. /\ n \in Nat /\ n > 0 /\ n <= k /\ k \in Nat
      /\ op \in Operations /\ args \in Arguments(op)
  BY <1>1, StatementIs, ArgumentsAre DEF Length
<1>3. disk' = disk
  BY UseSucceeds DEF Bracketed
<1>4. PICK s \in Writes \ {"ADD"} : /\ Using(s) /\ Succeed
                                    /\ work' = Written(s, work, n)
  <2>1. ASSUME NEW s \in Reads, Found(s)
        PROVE  FALSE
    BY <1>1, <2>1, Users DEF Found, Reads
  <2> QED
    BY <2>1, UseSucceeds DEF Bracketed
<1>5. s = "STACK_REMOVE" /\ Guid = args[k + 1 - n]
  BY <1>1, <1>4, Users DEF Writes
<1>6. work' = [work EXCEPT !.stack = {r \in @ : r[2] # Guid}]
  BY <1>4, <1>5 DEF Written
<1>7. work = [disk EXCEPT !.stack =
                {r \in @ : \A i \in 1..(k - n) : r[2] # args[i]}]
  BY DEF RemoveProgress
<1>8. Len(todo') = n - 1
  BY <1>1, <1>2, <1>4, EndOfProgram DEF Succeed, TodoOK, Operations
<1>9. disk \in Tables
  BY DEF TypeOK, TableOK
<1> SUFFICES work' = [disk EXCEPT !.stack =
                        {r \in @ : \A i \in 1..(k - (n - 1)) : r[2] # args[i]}]
  BY <1>1, <1>3, <1>8 DEF RemoveProgress
<1>10. 1..(k - (n - 1)) = (1..(k - n)) \union {k + 1 - n}
  <2> HIDE DEF n, k
  <2> QED
    BY <1>2
<1> DEFINE A == {r \in disk.stack : \A i \in 1..(k - n) : r[2] # args[i]}
           B == {r \in disk.stack : \A i \in 1..(k - (n - 1)) : r[2] # args[i]}
<1>11. {r \in A : r[2] # Guid} = B
  BY <1>5, <1>10
<1>12. work = [disk EXCEPT !.stack = A]
  BY <1>7
<1> HIDE DEF A
<1>13. work.stack = A
  BY <1>9, <1>12 DEF Tables
<1>14. work' = [work EXCEPT !.stack = B]
  BY <1>6, <1>11, <1>13
<1> HIDE DEF B
<1>15. work' = [disk EXCEPT !.stack = B]
  BY <1>9, <1>12, <1>14 DEF Tables
<1> QED
  BY <1>15 DEF B

LEMMA UseProgress ==
  ASSUME TypeOK, TodoOK, ConnectionOK, RowidOK, ProgressOK, Use,
         op # "bumpStackItems"
  PROVE  ProgressOK'
<1>1. UNCHANGED <<op, args>> /\ todo # <<>>
  BY UseMoves
<1> SUFFICES ASSUME op \in Bracketed, e' = "ok", Active' = {}
             PROVE  Progress'
  BY <1>1 DEF ProgressOK
<1>2. /\ args[1] \in Guids /\ op \in Operations /\ args \in Arguments(op)
      /\ e = "ok" /\ Len(todo) \in Nat /\ Len(todo) <= Length(op, args)
  BY <1>1, StatementIs
<1>3. Active = {} /\ disk' = disk
  BY UseSucceeds
<1>4. Progress
  BY <1>2, <1>3 DEF ProgressOK
<1>5. Ends(todo, op, args)
  BY <1>1, <1>2 DEF TodoOK, Operations
<1>6. Succeed => Len(todo') = Len(todo) - 1
  BY <1>1, <1>2, <1>5, EndOfProgram DEF Succeed
<1>7. ASSUME NEW s \in Reads, Found(s)
      PROVE  /\ op \in {"get", "updateMetadata", "updateInvalid", "popStackItem"}
             /\ op = "updateInvalid" => s = "MEDIA_ID" /\ Len(todo) = 4
             /\ op = "popStackItem" => s = "STACK_GET" /\ Len(todo) = 2
  BY <1>1, <1>7, Users DEF Found, Reads, Bracketed
<1>8. ASSUME NEW s \in Writes \ {"ADD"}, Using(s)
      PROVE  /\ op \in {"updateMetadata", "updateInvalid", "pushStackItem",
                        "popStackItem", "removeStackItems"}
             /\ op = "updateInvalid" => Len(todo) \in {2, 3}
             /\ op = "pushStackItem" => /\ s = "STACK_ADD" /\ Len(todo) = 1
                                        /\ Guid = args[1]
             /\ op = "popStackItem" => s = "STACK_DELETE" /\ Len(todo) = 1
  BY <1>1, <1>8, Users DEF Writes, Bracketed
<1> DEFINE Wrote1(s) == /\ Using(s) /\ Succeed /\ rowid' = rowid
                        /\ work' = Written(s, work, Len(todo))
           Inserted1 == /\ op = "add" /\ Len(todo) = 1 /\ Succeed
                        /\ work.media[args[1]] = 0
                        /\ work' = [work EXCEPT !.media[args[1]] =
                                                  NewId(MediaIds(work))]
<1>9. \/ \E s \in Reads : Found(s)
      \/ \E s \in Writes \ {"ADD"} : Wrote1(s)
      \/ Inserted1
  BY UseSucceeds
<1>10. CASE op = "add"
  <2>1. Inserted1
    <3>1. ASSUME NEW s \in Reads, Found(s)
          PROVE  FALSE
      BY <1>7, <1>10, <3>1
    <3>2. ASSUME NEW s \in Writes \ {"ADD"}, Wrote1(s)
          PROVE  FALSE
      BY <1>8, <1>10, <3>2
    <3> HIDE DEF Wrote1, Inserted1
    <3> QED
      BY <1>9, <3>1, <3>2
  <2>2. work = disk
    BY <1>1, <1>4, <1>10 DEF Progress, AddProgress
  <2>3. todo' = <<>>
    BY <1>5, <2>1 DEF Succeed, Ends
  <2>4. AddProgress'
    BY <1>1, <1>3, <2>1, <2>2, <2>3 DEF AddProgress
  <2> QED
    BY <1>1, <1>10, <2>4 DEF Progress
<1>11. CASE op = "updateMetadata"
  <2>1. MetadataProgress
    BY <1>4, <1>11 DEF Progress
  <2>2. MetadataProgress'
    BY <1>11, <2>1, UseMetadata
  <2> QED
    BY <1>1, <1>11, <2>2 DEF Progress
<1>12. CASE op = "updateInvalid"
  <2> DEFINE n == Len(todo)
             q == Tail(todo)
  <2>1. n > 1
    <3>1. ~Inserted1
      BY <1>12
    <3>2. n \in {2, 3, 4}
      <4>1. ASSUME NEW s \in Reads, Found(s)
            PROVE  n \in {2, 3, 4}
        BY <1>7, <1>12, <4>1
      <4>2. ASSUME NEW s \in Writes \ {"ADD"}, Wrote1(s)
            PROVE  n \in {2, 3, 4}
        BY <1>8, <1>12, <4>2
      <4> HIDE DEF n, Wrote1, Inserted1
      <4> QED
        BY <1>9, <3>1, <4>1, <4>2
    <3> HIDE DEF n
    <3> QED
      BY <1>2, <3>2
  <2>2. Ends(q, op, args) /\ Len(q) = n - 1 /\ n \in Nat
    BY <1>1, <1>2, <1>5, EndOfProgram
  <2>3. Len(q) > 0
    <3> HIDE DEF n, q
    <3> QED
      BY <1>2, <2>1, <2>2
  <2>4. q # <<>>
    <3> HIDE DEF q
    <3> QED
      BY <2>3
  <2>5. CASE todo' = q
    BY <1>1, <1>12, <2>4, <2>5 DEF Progress
  <2>6. CASE todo' = Tail(q) /\ n = 4
    <3>1. Len(Tail(q)) = Len(q) - 1
      <4> HIDE DEF q
      <4> QED
        BY <1>2, <2>2, <2>4, EndOfProgram
    <3>2. Len(todo') = 2
      <4> HIDE DEF n, q
      <4> QED
        BY <2>2, <2>6, <3>1
    <3>3. todo' # <<>>
      BY <3>2
    <3> QED
      BY <1>1, <1>12, <3>3 DEF Progress
  <2>7. todo' = q \/ (todo' = Tail(q) /\ n = 4)
    <3>1. ASSUME NEW s \in Reads, Found(s)
          PROVE  todo' = q \/ (todo' = Tail(q) /\ n = 4)
      BY <1>7, <1>12, <3>1 DEF Found, Succeed, Fail
    <3>2. ASSUME NEW s \in Writes \ {"ADD"}, Wrote1(s)
          PROVE  todo' = q
      BY <3>2 DEF Succeed
    <3>3. ~Inserted1
      BY <1>12
    <3> HIDE DEF n, q, Wrote1, Inserted1
    <3> QED
      BY <1>9, <3>1, <3>2, <3>3
  <2> HIDE DEF n, q
  <2> QED
    BY <2>5, <2>6, <2>7
<1>13. CASE op = "pushStackItem"
  <2>1. PICK s \in Writes \ {"ADD"} : Wrote1(s)
    <3>1. ASSUME NEW s \in Reads, Found(s)
          PROVE  FALSE
      BY <1>7, <1>13, <3>1
    <3>2. ~Inserted1
      BY <1>13
    <3> HIDE DEF Wrote1, Inserted1
    <3> QED
      BY <1>9, <3>1, <3>2
  <2>2. s = "STACK_ADD" /\ Len(todo) = 1 /\ Guid = args[1]
    BY <1>8, <1>13, <2>1
  <2>3. work = disk
    BY <1>1, <1>4, <1>13 DEF Progress, PushProgress
  <2>4. work' = [work EXCEPT !.stack =
                   @ \union {<<NewId(StackIds(work)), args[1]>>}]
    BY <2>1, <2>2 DEF Written
  <2>5. Len(todo') = 0
    BY <1>6, <2>1, <2>2
  <2>6. todo' = <<>>
    BY <2>1, <2>2, <1>5 DEF Succeed, Ends
  <2>7. PushProgress'
    BY <1>1, <1>3, <2>3, <2>4, <2>6 DEF PushProgress
  <2> QED
    BY <1>1, <1>13, <2>7 DEF Progress
<1>14. CASE op = "popStackItem"
  <2>1. PopProgress
    BY <1>4, <1>14 DEF Progress
  <2>2. ~Inserted1
    BY <1>14
  <2>3. ASSUME NEW s \in Reads, Found(s)
        PROVE  PopProgress'
    <3>1. s = "STACK_GET" /\ Len(todo) = 2 /\ UNCHANGED work
      BY <1>7, <1>14, <2>3 DEF Found
    <3>2. Succeed
      BY <2>3, <3>1 DEF Found, Fail
    <3>3. Len(todo') = 1
      BY <1>6, <3>1, <3>2
    <3>4. work = disk
      BY <1>1, <2>1 DEF PopProgress
    <3>5. rowid' = Largest(StackIds(work))
      BY <2>3, <3>1 DEF Found
    <3>6. todo' # <<>>
      BY <3>3
    <3> QED
      BY <1>3, <3>1, <3>4, <3>5, <3>6 DEF PopProgress
  <2>4. ASSUME NEW s \in Writes \ {"ADD"}, Wrote1(s)
        PROVE  PopProgress'
    <3>1. s = "STACK_DELETE" /\ Len(todo) = 1
      BY <1>8, <1>14, <2>4
    <3>2. work = disk /\ rowid = Largest(StackIds(disk))
      BY <1>1, <2>1, <3>1 DEF PopProgress
    <3>3. work' = [work EXCEPT !.stack = {r \in @ : r[1] # rowid}]
      BY <2>4, <3>1 DEF Written
    <3>4. todo' = <<>>
      BY <1>5, <2>4, <3>1 DEF Succeed, Ends
    <3> QED
      BY <1>3, <3>2, <3>3, <3>4 DEF PopProgress
  <2>5. PopProgress'
    <3> HIDE DEF Wrote1, Inserted1
    <3> QED
      BY <1>9, <2>2, <2>3, <2>4
  <2> QED
    BY <1>1, <1>14, <2>5 DEF Progress
<1>15. CASE op = "removeStackItems"
  <2>1. RemoveProgress
    BY <1>4, <1>15 DEF Progress
  <2>2. RemoveProgress'
    BY <1>15, <2>1, UseRemoves
  <2> QED
    BY <1>1, <1>15, <2>2 DEF Progress
<1>16. CASE op = "get"
  BY <1>1, <1>16 DEF Progress
<1> QED
  BY <1>10, <1>11, <1>12, <1>13, <1>14, <1>15, <1>16 DEF Bracketed
-----------------------------------------------------------------------------
(* Only remove and updateThumbnail write to the file before they return.   *)
ThumbnailStored ==
  disk' = [disk EXCEPT !.thumb =
             @ \union ({args[1]} \ {g \in Guids : disk.media[g] = 0})]

LEMMA UseWritesFile ==
  ASSUME TypeOK, TodoOK, ConnectionOK, Use, op # "bumpStackItems", disk' # disk
  PROVE  op = "remove" \/ (op = "updateThumbnail" /\ ThumbnailStored)
<1>1. todo # <<>>
  BY UseMoves
<1>2. e = "ok" /\ op \in Operations
  BY <1>1, StatementIs
<1>3. ASSUME NEW s \in Stmts, Reported(s) \/ Blocked(s)
      PROVE  FALSE
  BY <1>3 DEF Reported, ResetFails, Blocked, StepIsBusy
<1>4. ASSUME NEW s \in Reads, Found(s)
      PROVE  FALSE
  BY <1>4 DEF Found
<1>5. ASSUME NEW s \in Writes \ {"ADD"}, Wrote(s)
      PROVE  op = "remove" \/ (op = "updateThumbnail" /\ ThumbnailStored)
  <2> DEFINE t == Written(s, work, Len(todo))
  <2>1. Using(s) /\ Resets(s) /\ StepWrites(s, t)
    BY <1>5 DEF Wrote
  <2> HIDE DEF t
  <2>2. disk' = t /\ ~open /\ Active \ {s} = {}
    BY <2>1, StepWritesIs
  <2>3. Active = {} /\ work = disk
    BY <2>1, <2>2 DEF Active, Resets, ConnectionOK
  <2>4. op \notin Bracketed
    BY <1>2, <2>2 DEF ConnectionOK
  <2>5. \/ op = "remove"
        \/ op = "updateThumbnail" /\ s = "UPDATE_BLOB" /\ Guid = args[1]
    BY <1>1, <2>1, <2>4, Users DEF Writes, Bracketed
  <2> QED
    BY <2>2, <2>3, <2>5 DEF t, Written, ThumbnailStored
<1>6. ASSUME NEW g \in Guids, Inserted(g)
      PROVE  FALSE
  <2>1. op \in Bracketed /\ \E t : StepWrites("ADD", t)
    BY <1>6 DEF Inserted, Bracketed
  <2> QED
    BY <1>2, <2>1, InTransaction DEF ConnectionOK
<1>7. ~Refused
  BY DEF Refused
<1> QED
  BY <1>3, <1>4, <1>5, <1>6, <1>7, UseCases

(* Without locks nothing fails but what has a reason to.                   *)
LEMMA UseOutcome ==
  ASSUME TypeOK, TodoOK, ConnectionOK, RemoveIsWhole, ProgressOK, OutcomeOK,
         Use, op # "bumpStackItems"
  PROVE  OutcomeOK'
<1>1. UNCHANGED <<world, op, args>> /\ todo # <<>>
  BY UseMoves
<1>2. e = "ok" /\ op \in Operations /\ op # "none" /\ args[1] \in Guids
  BY <1>1, StatementIs DEF Operations
<1> SUFFICES ASSUME NoLocks
             PROVE  /\ op = "remove" /\ Len(todo') <= 1 => disk'.media[args[1]] = 0
                    /\ op = "updateThumbnail" /\ todo' = <<>> /\ e' = "ok"
                         /\ disk'.media[args[1]] # 0 => args[1] \in disk'.thumb
                    /\ e' = "error" =>
                         \/ op \in {"add", "get", "getFilename", "updateInvalid"}
                         \/ op = "popStackItem" /\ disk'.stack = {}
  BY <1>1, <1>2 DEF OutcomeOK, NoLocks
<1>3. Active = {} /\ (open <=> op \in Bracketed) /\ (~open => work = disk)
  BY <1>2 DEF ConnectionOK
<1>4. disk \in Tables /\ work \in Tables /\ disk.media \in [Guids -> Nat]
  BY DEF TypeOK, TableOK, Tables
<1>5. ASSUME NEW s \in Stmts, Reported(s) \/ Blocked(s)
      PROVE  op = "add"
  <2>1. ~Blocked(s)
    BY DEF Blocked, StepIsBusy, NoLocks
  <2>2. Using(s) /\ stmt[s] \in {"failed", "active"}
    BY <1>5, <2>1 DEF Reported, ResetFails
  <2>3. s = "ADD"
    BY <1>3, <2>2 DEF Active, ConnectionOK
  <2> QED
    BY <1>1, <2>2, <2>3, Users
<1>6. ASSUME op = "remove"
      PROVE  e' = "ok" /\ (Len(todo') <= 1 => disk'.media[args[1]] = 0)
  <2>1. /\ e' = "ok" /\ work = disk
        /\ RemoveFinds \/ RemoveDeletes \/ RemoveCleans
    BY <1>6, RemoveSteps
  <2>2. CASE RemoveFinds
    <3>1. CASE work.media[args[1]] = 0
      BY <2>1, <2>2, <3>1 DEF RemoveFinds
    <3>2. CASE work.media[args[1]] # 0
      <4>1. Len(todo') = 2
        BY <2>2, <3>2 DEF RemoveFinds
      <4> QED
        BY <2>1, <4>1
    <3> QED
      BY <3>1, <3>2
  <2>3. CASE RemoveDeletes
    BY <1>2, <1>4, <2>1, <2>3 DEF RemoveDeletes, Tables
  <2>4. CASE RemoveCleans
    <3>1. Len(todo) <= 1
      BY <2>4 DEF RemoveCleans
    <3>2. disk.media[args[1]] = 0
      BY <1>6, <3>1 DEF OutcomeOK
    <3>3. disk'.media = disk.media
      BY <1>4, <2>1, <2>4 DEF RemoveCleans, Tables
    <3> QED
      BY <2>1, <3>2, <3>3
  <2> QED
    BY <2>1, <2>2, <2>3, <2>4
<1>7. ASSUME op = "updateThumbnail"
      PROVE  e' = "ok" /\ (disk'.media[args[1]] # 0 => args[1] \in disk'.thumb)
  <2>1. ASSUME NEW s \in Reads, Found(s)
        PROVE  FALSE
    BY <1>1, <1>7, <2>1, Users DEF Found, Reads
  <2>2. ~Refused /\ \A g \in Guids : ~Inserted(g)
    BY <1>7 DEF Refused, Inserted
  <2>3. PICK s \in Writes \ {"ADD"} : Wrote(s)
    BY <1>5, <1>7, <2>1, <2>2, UseCases
  <2> DEFINE t == Written(s, work, Len(todo))
  <2>4. Using(s) /\ StepWrites(s, t)
    BY <2>3 DEF Wrote
  <2>5. s = "UPDATE_BLOB" /\ Guid = args[1]
    BY <1>1, <1>7, <2>4, Users DEF Writes
  <2> HIDE DEF t
  <2>6. ~open /\ work = disk
    BY <1>3, <1>7 DEF Bracketed
  <2>7. disk' = t /\ e' = e
    BY <1>3, <2>4, <2>6, StepWritesIs DEF Succeed
  <2>8. t = [disk EXCEPT !.thumb =
               @ \union ({args[1]} \ {g \in Guids : disk.media[g] = 0})]
    BY <2>5, <2>6 DEF t, Written
  <2>9. /\ t.media = disk.media
        /\ t.thumb = disk.thumb \union
                     ({args[1]} \ {g \in Guids : disk.media[g] = 0})
    BY <1>4, <2>8 DEF Tables
  <2> QED
    BY <1>2, <2>7, <2>9
<1>8. ASSUME e' = "error", op \notin {"remove", "updateThumbnail"}
      PROVE  \/ op \in {"add", "get", "getFilename", "updateInvalid"}
             \/ op = "popStackItem" /\ disk'.stack = {}
  <2>1. ~Succeed
    BY <1>2, <1>8 DEF Succeed
  <2>2. ASSUME NEW s \in Reads, Found(s)
        PROVE  \/ op = "getFilename"
               \/ op = "popStackItem" /\ disk'.stack = {}
    <3>1. Using(s) /\ ~HasRow(s) /\ s \notin {"GET", "MEDIA_ID"} /\ disk' = disk
      BY <1>2, <1>8, <2>1, <2>2 DEF Found
    <3>2. CASE s = "GET_FILENAME"
      BY <1>1, <3>1, <3>2, Users
    <3>3. CASE s = "STACK_GET"
      <4>1. work.stack = {}
        BY <3>1, <3>3 DEF HasRow
      <4>2. op = "popStackItem"
        BY <1>1, <3>1, <3>3, Users
      <4>3. Progress
        BY <1>2, <1>3, <4>2 DEF ProgressOK, Bracketed
      <4>4. work = disk
        BY <1>1, <4>2, <4>3 DEF Progress, PopProgress
      <4> QED
        BY <3>1, <4>1, <4>2, <4>4
    <3> QED
      BY <3>1, <3>2, <3>3 DEF Reads, HasRow
  <2>3. ASSUME NEW s, NEW t, StepWrites(s, t)
        PROVE  FALSE
    BY <2>1, <2>3, StepWritesIs
  <2>4. ASSUME NEW s \in Writes \ {"ADD"}, Wrote(s)
        PROVE  FALSE
    BY <2>3, <2>4 DEF Wrote
  <2>5. ASSUME NEW g \in Guids, Inserted(g)
        PROVE  FALSE
    BY <2>3, <2>5 DEF Inserted
  <2>6. Refused => op = "add"
    BY DEF Refused
  <2> QED
    BY <1>5, <2>2, <2>4, <2>5, <2>6, UseCases
<1>9. e' = "ok" \/ e' = "error"
  BY UseMoves DEF Moves
<1> QED
  BY <1>6, <1>7, <1>8, <1>9

(* A transaction begins with nothing uncommitted.                          *)
LEMMA StartProgress ==
  ASSUME TypeOK, ConnectionOK, NEW o \in world.ops, NEW l \in Arguments(o),
         Start(o, l), o # "bumpStackItems"
  PROVE  ProgressOK' /\ OutcomeOK'
<1>1. o \in Operations /\ o # "none"
  BY StartIs
<1>2. /\ op = "none" /\ op' = o /\ args' = l
      /\ UNCHANGED <<world, disk, work, stmt>>
      /\ Active' = Active
  BY DEF Start, Active
<1>3. ProgressOK'
  <2> SUFFICES ASSUME o \in Bracketed, e' = "ok", Active' = {}
               PROVE  Progress'
    BY <1>2 DEF ProgressOK
  <2>1. ~open /\ todo' = Program(o, l)
    BY DEF Start
  <2>2. work' = disk' /\ disk' = disk
    BY <1>2, <2>1 DEF ConnectionOK
  <2>3. Len(todo') = Length(o, l)
    BY <1>1, <2>1, ProgramIs
  <2>4. o \in {"add", "pushStackItem"} => todo' # <<>>
    <3>1. o \in {"add", "pushStackItem"} => Len(todo') = 1
      BY <2>3 DEF Length
    <3>2. Len(<<>>) # 1
      OBVIOUS
    <3> QED
      BY <3>1, <3>2, Zenon
  <2>5. o \in {"popStackItem", "updateInvalid"} => todo' # <<>> /\ Len(todo') # 1
    <3>1. /\ o = "popStackItem" => Len(todo') = 2
          /\ o = "updateInvalid" => Len(todo') = 4
      BY <2>3 DEF Length
    <3> QED
      BY <3>1
  <2>6. o = "updateMetadata" => Len(todo') > Values
    <3>1. Values \in Nat
      BY ProviderAssumption
    <3>2. o = "updateMetadata" => Len(todo') = Values + 2
      BY <2>3 DEF Length
    <3> QED
      BY <3>1, <3>2
  <2>7. o = "removeStackItems" => RemoveProgress'
    <3> SUFFICES ASSUME o = "removeStackItems"
                 PROVE  RemoveProgress'
      OBVIOUS
    <3>1. Len(todo') = Len(args') /\ Len(args') \in Nat
      BY <1>1, <1>2, <2>3, ArgumentsAre DEF Length
    <3>2. 1..(Len(args') - Len(todo')) = {}
      BY <3>1
    <3>3. disk \in Tables
      BY DEF TypeOK, TableOK
    <3>4. disk = [disk EXCEPT !.stack = {r \in @ : \A i \in {} : r[2] # l[i]}]
      <4> DEFINE A == {r \in disk.stack : \A i \in {} : r[2] # l[i]}
      <4>1. A = disk.stack
        OBVIOUS
      <4> HIDE DEF A
      <4>2. disk = [disk EXCEPT !.stack = A]
        BY <3>3, <4>1 DEF Tables
      <4> QED
        BY <4>2 DEF A
    <3> QED
      BY <1>2, <2>2, <3>2, <3>4 DEF RemoveProgress
  <2> QED
    BY <1>2, <2>2, <2>4, <2>5, <2>6, <2>7
       DEF Progress, AddProgress, MetadataProgress, PushProgress, PopProgress
<1>4. OutcomeOK'
  <2> SUFFICES ASSUME NoLocks
               PROVE  /\ ~(o = "remove" /\ Len(todo') <= 1)
                      /\ ~(o = "updateThumbnail" /\ todo' = <<>>)
                      /\ e' # "error"
    BY <1>2 DEF OutcomeOK, NoLocks
  <2>1. ~open
    BY <1>2 DEF ConnectionOK, Bracketed
  <2>2. e' = "ok" /\ todo' = Program(o, l)
    BY <2>1 DEF Start
  <2>3. Len(todo') = Length(o, l)
    BY <1>1, <2>2, ProgramIs
  <2>4. o = "remove" => Len(todo') = 3
    BY <2>3 DEF Length
  <2>5. o = "updateThumbnail" => Len(todo') = 1
    BY <2>3 DEF Length
  <2>6. o = "updateThumbnail" => todo' # <<>>
    BY <2>5
  <2> QED
    BY <2>2, <2>4, <2>6
<1> QED
  BY <1>3, <1>4

LEMMA NextStore ==
  ASSUME Inv, StoreInv, [Next]_vars
  PROVE  StoreInv'
<1> SUFFICES ASSUME Whole'
             PROVE  ProgressOK' /\ OutcomeOK'
  BY DEF StoreInv
<1>1. UNCHANGED world
  BY DEF Next, Start, Use, Reject, Commit, Abort, Return, Reopen, vars
<1>2. Whole /\ RemoveIsWhole
  BY <1>1 DEF Whole, RemoveIsWhole, NoLocks
<1>3. ProgressOK /\ OutcomeOK
  BY <1>2 DEF StoreInv
<1>4. TypeOK /\ TodoOK /\ ConnectionOK /\ DataOK
  BY DEF Inv
<1>5. "bumpStackItems" \notin world.ops
  BY <1>2 DEF Whole
<1>6. ASSUME NEW o \in world.ops, NEW l \in Arguments(o), Start(o, l)
      PROVE  ProgressOK' /\ OutcomeOK'
  BY <1>4, <1>5, <1>6, StartProgress
<1>7. CASE Use
  <2>1. op # "bumpStackItems"
    BY <1>4, <1>5 DEF TypeOK
  <2>2. RowidOK
    BY <1>2, <1>4 DEF DataOK
  <2> QED
    BY <1>2, <1>3, <1>4, <1>7, <2>1, <2>2, UseProgress, UseOutcome
<1>8. CASE Reject
  <2>1. /\ e' = "error" /\ Using("INVALID") /\ todo # <<>>
        /\ UNCHANGED <<world, op, args, disk>>
    BY <1>8 DEF Reject, RejectValue, Fail, Using
  <2>2. op = "updateInvalid"
    BY <1>4, <2>1, Users
  <2> QED
    BY <2>1, <2>2 DEF ProgressOK, OutcomeOK
<1>9. CASE Commit \/ Abort \/ Return \/ Reopen
  <2>1. op' = "none"
    BY <1>9 DEF Commit, Abort, Return, Reopen, Returns
  <2> QED
    BY <2>1 DEF ProgressOK, OutcomeOK, Bracketed
<1>10. CASE UNCHANGED vars
  <2>1. ProgressOK' <=> ProgressOK
    BY <1>10 DEF vars, ProgressOK, Active, Progress, AddProgress,
         MetadataProgress, PushProgress, PopProgress, RemoveProgress
  <2>2. OutcomeOK' <=> OutcomeOK
    BY <1>10 DEF vars, OutcomeOK, NoLocks
  <2> QED
    BY <1>3, <2>1, <2>2
<1> QED
  BY <1>6, <1>7, <1>8, <1>9, <1>10 DEF Next
-----------------------------------------------------------------------------
(* The tables as MediaStore has them.                                      *)
Stored(d) ==
  [media |-> {g \in Guids : d.media[g] # 0},
   info  |-> [g \in Guids |->
               {<<r[3], r[2]>> : r \in {r \in d.meta :
                  d.media[g] # 0 /\ r[1] = d.media[g]}}],
   thumb |-> d.thumb,
   stack |-> d.stack]

(* The metadata stored for an image.                                       *)
Info(d, g) == {<<r[3], r[2]>> : r \in {r \in d.meta :
                  d.media[g] # 0 /\ r[1] = d.media[g]}}

LEMMA SameInfo ==
  ASSUME NEW d, NEW w, NEW g, w.media[g] = d.media[g],
         \A r : r[1] = d.media[g] /\ r[1] # 0 => (r \in w.meta <=> r \in d.meta)
  PROVE  Info(w, g) = Info(d, g)
BY DEF Info

LEMMA NewestIs ==
  ASSUME NEW d, TableOK(d)
  PROVE  /\ Store!Newest(d.stack) = Largest(StackIds(d))
         /\ Store!Newest(d.stack) + 1 = NewId(StackIds(d))
<1>1. Store!Newest(d.stack) = Largest(StackIds(d))
  BY DEF Store!Newest, Store!Max, Max, Largest, StackIds
<1>2. Largest(StackIds(d)) \in Nat
  BY IdsAreNat, LargestIs
<1> QED
  BY <1>1, <1>2 DEF NewId

(* What a transaction that commits has done is the effect of its operation *)
(* on the tables as MediaStore has them.                                   *)
LEMMA AddEffect ==
  ASSUME NEW d, TableOK(d), RowsOK(d, {}), NEW l, l[1] \in Guids,
         d.media[l[1]] = 0,
         NEW w, w = [d EXCEPT !.media[l[1]] = NewId(MediaIds(d))]
  PROVE  Stored(w) = Store!Effect("add", l, Stored(d))
<1> DEFINE g == l[1]
           id == NewId(MediaIds(d))
<1>1. d \in Tables /\ d.media \in [Guids -> Nat]
  BY DEF TableOK, Tables
<1>2. id > 0 /\ \A x \in MediaIds(d) : x < id
  BY IdsAreNat, NewIdIs
<1>3. \A h \in Guids : d.media[h] # id
  <2>1. id \in Nat
    BY IdsAreNat, NewIdIs
  <2>2. \A h \in Guids : d.media[h] \in MediaIds(d) /\ d.media[h] \in Nat
    BY <1>1 DEF MediaIds
  <2> HIDE DEF id
  <2> QED
    BY <1>2, <2>1, <2>2
<1>a. id # 0
  <2>1. id \in Nat
    BY IdsAreNat, NewIdIs
  <2> HIDE DEF id
  <2> QED
    BY <1>2, <2>1
<1> HIDE DEF id
<1>4. /\ w.meta = d.meta /\ w.thumb = d.thumb /\ w.stack = d.stack
      /\ w.media[g] = id /\ \A h \in Guids \ {g} : w.media[h] = d.media[h]
  BY <1>1 DEF Tables, id
<1>5. \A h \in Guids : Info(w, h) = Info(d, h)
  <2> TAKE h \in Guids
  <2>1. CASE h = g
    <3>1. \A r \in d.meta : r[1] # id
      <4>1. \A r \in d.meta : r[1] # 0 => d.media[r[3]] = r[1]
        BY DEF RowsOK
      <4>2. \A r \in d.meta : r[3] \in Guids
        BY <1>1 DEF Tables
      <4> QED
        BY <1>a, <1>3, <4>1, <4>2
    <3>2. Info(d, h) = {}
      BY <2>1 DEF Info
    <3>3. Info(w, h) = {}
      BY <1>4, <2>1, <3>1 DEF Info
    <3> QED
      BY <3>2, <3>3
  <2>2. CASE h # g
    <3>1. w.meta = d.meta /\ w.media[h] = d.media[h]
      BY <1>4, <2>2
    <3> QED
      BY ONLY <3>1 DEF Info
  <2> QED
    BY <2>1, <2>2
<1>6. {h \in Guids : w.media[h] # 0} = {h \in Guids : d.media[h] # 0} \union {g}
  BY <1>a, <1>4
<1>7. [h \in Guids |-> Info(w, h)] = [h \in Guids |-> Info(d, h)]
  BY <1>5
<1>8. Store!Effect("add", l, Stored(d)) = [Stored(d) EXCEPT !.media = @ \union {g}]
  BY DEF Store!Effect
<1> QED
  BY <1>4, <1>6, <1>7, <1>8 DEF Stored, Info

LEMMA MetadataEffect ==
  ASSUME NEW d, TableOK(d), RowsOK(d, {}), NEW l, l[1] \in Guids,
         Values \in Nat,
         NEW w, w.media = d.media, w.thumb = d.thumb, w.stack = d.stack,
         {r \in w.meta : r[1] # 0} =
            {r \in d.meta : r[1] # 0 /\ r[1] # d.media[l[1]]} \union
            {<<d.media[l[1]], n, l[1]>> :
               n \in IF d.media[l[1]] = 0 THEN {} ELSE 1..Values}
  PROVE  Stored(w) = Store!Effect("updateMetadata", l, Stored(d))
<1> DEFINE g == l[1]
           id == d.media[g]
<1>1. d \in Tables /\ d.media \in [Guids -> Nat]
  BY DEF TableOK, Tables
<1>2. \A h \in Guids : h # g \/ id = 0 => Info(w, h) = Info(d, h)
  <2> SUFFICES ASSUME NEW h \in Guids, h # g \/ id = 0
               PROVE  Info(w, h) = Info(d, h)
    OBVIOUS
  <2>1. CASE d.media[h] = 0
    BY <2>1 DEF Info
  <2>2. CASE d.media[h] # 0
    <3>1. d.media[h] # id
      BY <2>2 DEF RowsOK
    <3>2. \A r : r[1] = d.media[h] /\ r[1] # 0 => (r \in w.meta <=> r \in d.meta)
      BY <3>1
    <3> QED
      BY <3>2, SameInfo
  <2> QED
    BY <2>1, <2>2
<1>3. CASE id = 0
  <2>1. [h \in Guids |-> Info(w, h)] = [h \in Guids |-> Info(d, h)]
    BY <1>2, <1>3
  <2>2. Stored(w) = Stored(d)
    BY <2>1 DEF Stored, Info
  <2>3. g \notin Stored(d).media
    BY <1>3 DEF Stored
  <2> QED
    BY <2>2, <2>3 DEF Store!Effect
<1>4. CASE id # 0
  <2>1. Info(w, g) = {g} \X (1..Values)
    <3>1. {r \in w.meta : r[1] # 0} =
            {r \in d.meta : r[1] # 0 /\ r[1] # id} \union
            {<<id, n, g>> : n \in 1..Values}
      BY <1>4
    <3>2. \A r : r \in w.meta /\ r[1] = id
                   <=> \E n \in 1..Values : r = <<id, n, g>>
      BY <1>4, <3>1
    <3>3. \A p \in Info(w, g) : p \in {g} \X (1..Values)
      BY <3>2 DEF Info
    <3>4. \A p \in {g} \X (1..Values) : p \in Info(w, g)
      <4> SUFFICES ASSUME NEW n \in 1..Values
                   PROVE  <<g, n>> \in Info(w, g)
        OBVIOUS
      <4> DEFINE r == <<id, n, g>>
      <4>1. r \in w.meta /\ r[1] = id /\ r[3] = g /\ r[2] = n
        BY <3>2
      <4> HIDE DEF r
      <4> QED
        BY <1>4, <4>1 DEF Info
    <3> QED
      BY <3>3, <3>4
  <2>2. [h \in Guids |-> Info(w, h)]
          = [[h \in Guids |-> Info(d, h)] EXCEPT ![g] = {g} \X (1..Values)]
    BY <1>2, <2>1
  <2>3. Store!Effect("updateMetadata", l, Stored(d))
          = [Stored(d) EXCEPT !.info[g] = {g} \X (1..Values)]
    <3>1. g \in Stored(d).media
      BY <1>4 DEF Stored
    <3> QED
      BY <3>1 DEF Store!Effect
  <2> QED
    BY <2>2, <2>3 DEF Stored, Info
<1> QED
  BY <1>3, <1>4

LEMMA StackEffect ==
  ASSUME NEW d, TableOK(d), NEW s
  PROVE  Stored([d EXCEPT !.stack = s]) = [Stored(d) EXCEPT !.stack = s]
<1> DEFINE w == [d EXCEPT !.stack = s]
<1>1. /\ w.media = d.media /\ w.meta = d.meta /\ w.thumb = d.thumb
      /\ w.stack = s
  BY DEF TableOK, Tables
<1> HIDE DEF w
<1>2. [h \in Guids |-> Info(w, h)] = [h \in Guids |-> Info(d, h)]
  BY <1>1 DEF Info
<1>3. {h \in Guids : w.media[h] # 0} = {h \in Guids : d.media[h] # 0}
  BY <1>1
<1> DEFINE M == {h \in Guids : d.media[h] # 0}
           I == [h \in Guids |-> Info(d, h)]
<1>4. Stored(w) = [media |-> M, info |-> I, thumb |-> d.thumb, stack |-> s]
  BY <1>1, <1>2, <1>3 DEF Stored, Info
<1>5. Stored(d) = [media |-> M, info |-> I, thumb |-> d.thumb, stack |-> d.stack]
  BY DEF Stored, Info
<1> HIDE DEF M, I
<1>6. Stored(w) = [Stored(d) EXCEPT !.stack = s]
  BY <1>4, <1>5
<1> QED
  BY <1>6 DEF w

LEMMA CommitEffect ==
  ASSUME Inv, StoreInv, Whole, Commit, CanEnd
  PROVE  Stored(work) = Store!Effect(op, args, Stored(disk))
<1>1. /\ op \in Bracketed \ {"get", "bumpStackItems"}
      /\ todo = <<>> /\ e = "ok" /\ Active = {}
  BY DEF Inv, Whole, TypeOK, Commit, CanEnd, Bracketed
<1>2. Progress
  BY <1>1 DEF StoreInv, ProgressOK
<1>3. TableOK(disk) /\ disk \in Tables /\ TodoOK
  BY DEF Inv, TypeOK, TableOK
<1>4. RowsOK(disk, {})
  BY <1>1 DEF Inv, DataOK, Whole, Orphans
<1>5. /\ args \in Seq(Guids) /\ args[1] \in Guids
      /\ Len(args) \in Nat
  <2>1. op \in Operations /\ args \in Arguments(op)
    BY <1>1, <1>3 DEF TodoOK, Bracketed, Operations
  <2> QED
    BY <2>1, ArgumentsAre
<1>6. CASE op = "add"
  <2>1. /\ disk.media[args[1]] = 0
        /\ work = [disk EXCEPT !.media[args[1]] = NewId(MediaIds(disk))]
    BY <1>1, <1>2, <1>6 DEF Progress, AddProgress
  <2> QED
    BY <1>3, <1>4, <1>5, <1>6, <2>1, AddEffect
<1>7. CASE op = "updateMetadata"
  <2> DEFINE g == args[1]
             id == disk.media[g]
  <2>1. MetadataProgress
    BY <1>2, <1>7 DEF Progress
  <2>2. Values \in Nat
    BY ProviderAssumption
  <2>3. Len(todo) = 0 /\ ~(Len(todo) > Values)
    BY <1>1, <2>2
  <2>4. work.media = disk.media /\ work.thumb = disk.thumb /\ work.stack = disk.stack
    BY <2>1 DEF MetadataProgress
  <2>5. {r \in work.meta : r[1] # 0} =
          {r \in disk.meta : r[1] # 0 /\ r[1] # id} \union
          {<<id, n, g>> : n \in IF id = 0 THEN {} ELSE 1..Values}
    <3>1. Len(todo) + 1 = 1
      BY <2>3
    <3> QED
      BY <2>1, <2>3, <3>1 DEF MetadataProgress
  <2> QED
    BY <1>3, <1>4, <1>5, <1>7, <2>2, <2>4, <2>5, MetadataEffect
<1>8. CASE op = "updateInvalid"
  BY <1>1, <1>2, <1>8 DEF Progress
<1>9. CASE op = "pushStackItem"
  <2> DEFINE s == disk.stack \union {<<NewId(StackIds(disk)), args[1]>>}
  <2>1. work = [disk EXCEPT !.stack = s]
    BY <1>1, <1>2, <1>9 DEF Progress, PushProgress
  <2>2. Stored(disk).stack = disk.stack
    BY DEF Stored
  <2>3. Store!Effect(op, args, Stored(disk)) = [Stored(disk) EXCEPT !.stack = s]
    BY <1>3, <1>9, <2>2, NewestIs DEF Store!Effect
  <2> HIDE DEF s
  <2> QED
    BY <1>3, <2>1, <2>3, StackEffect
<1>10. CASE op = "popStackItem"
  <2> DEFINE s == {r \in disk.stack : r[1] # Largest(StackIds(disk))}
  <2>1. work = [disk EXCEPT !.stack = s]
    BY <1>1, <1>2, <1>10 DEF Progress, PopProgress
  <2>2. Stored(disk).stack = disk.stack
    BY DEF Stored
  <2>3. Store!Effect(op, args, Stored(disk)) = [Stored(disk) EXCEPT !.stack = s]
    BY <1>3, <1>10, <2>2, NewestIs DEF Store!Effect
  <2> HIDE DEF s
  <2> QED
    BY <1>3, <2>1, <2>3, StackEffect
<1>11. CASE op = "removeStackItems"
  <2> DEFINE s == {r \in disk.stack : \A i \in 1..(Len(args) - Len(todo)) :
                                        r[2] # args[i]}
  <2>1. work = [disk EXCEPT !.stack = s]
    BY <1>2, <1>11 DEF Progress, RemoveProgress
  <2>2. Stored(disk).stack = disk.stack
    BY DEF Stored
  <2>3. s = {r \in disk.stack : r[2] \notin Store!Range(args)}
    <3>1. Len(todo) = 0
      BY <1>1
    <3>2. Len(args) - Len(todo) = Len(args)
      BY <1>5, <3>1
    <3>3. Store!Range(args) = {args[i] : i \in 1..Len(args)}
      BY <1>5 DEF Store!Range
    <3> QED
      BY <3>2, <3>3
  <2>4. Store!Effect(op, args, Stored(disk)) = [Stored(disk) EXCEPT !.stack = s]
    BY <1>11, <2>2, <2>3 DEF Store!Effect
  <2> HIDE DEF s
  <2> QED
    BY <1>3, <2>1, <2>4, StackEffect
<1> QED
  BY <1>1, <1>6, <1>7, <1>8, <1>9, <1>10, <1>11 DEF Bracketed

(* The statements that write to the file at once are its effect, or leave  *)
(* MediaStore's tables as they are.                                        *)
LEMMA RemoveEffect ==
  ASSUME Inv, Whole, Use, op = "remove", disk' # disk
  PROVE  \/ Stored(disk') = Store!Effect(op, args, Stored(disk))
         \/ Stored(disk') = Stored(disk)
<1> DEFINE g == args[1]
<1>1. /\ g \in Guids /\ work = disk
      /\ RemoveDeletes \/ RemoveCleans
  BY RemoveSteps DEF Inv, Whole, RemoveFinds
<1>2. disk \in Tables /\ disk.media \in [Guids -> Nat] /\ disk.thumb \subseteq Guids
  BY DEF Inv, TypeOK, TableOK, Tables
<1>3. CASE RemoveDeletes
  <2> DEFINE u == disk'
  <2>1. disk' = [disk EXCEPT !.media[g] = 0, !.thumb = @ \ {g}]
    BY <1>1, <1>3 DEF RemoveDeletes
  <2>2. /\ u.meta = disk.meta /\ u.stack = disk.stack
        /\ u.thumb = disk.thumb \ {g}
        /\ u.media[g] = 0 /\ \A h \in Guids \ {g} : u.media[h] = disk.media[h]
    BY <1>1, <1>2, <2>1 DEF Tables
  <2> HIDE DEF u
  <2>3. {h \in Guids : u.media[h] # 0} = {h \in Guids : disk.media[h] # 0} \ {g}
    BY <2>2
  <2>4. Info(u, g) = {}
    BY <2>2 DEF Info
  <2>5. \A h \in Guids \ {g} : Info(u, h) = Info(disk, h)
    BY <2>2 DEF Info
  <2>6. [h \in Guids |-> Info(u, h)]
          = [[h \in Guids |-> Info(disk, h)] EXCEPT ![g] = {}]
    BY <2>4, <2>5
  <2>7. Store!Effect(op, args, Stored(disk)) =
          [Stored(disk) EXCEPT !.media = @ \ {g}, !.info[g] = {},
                               !.thumb = @ \ {g}]
    BY DEF Store!Effect
  <2>8. Stored(u) = Store!Effect(op, args, Stored(disk))
    BY <2>2, <2>3, <2>6, <2>7 DEF Stored, Info
  <2> QED
    BY <2>8 DEF u
<1>4. CASE RemoveCleans
  <2> DEFINE u == disk'
  <2>1. disk' = [disk EXCEPT !.meta = {r \in @ : r[1] # rowid}]
    BY <1>1, <1>4 DEF RemoveCleans
  <2>2. /\ u.media = disk.media /\ u.stack = disk.stack /\ u.thumb = disk.thumb
        /\ u.meta = {r \in disk.meta : r[1] # rowid}
    BY <1>2, <2>1 DEF Tables
  <2>3. \A h \in Guids : disk.media[h] = rowid => rowid = 0
    BY <1>1, <1>4 DEF Inv, DataOK, Whole, RowidOK, RemoveCleans
  <2> HIDE DEF u
  <2>4. \A h \in Guids : Info(u, h) = Info(disk, h)
    BY <2>2, <2>3 DEF Info
  <2>5. [h \in Guids |-> Info(u, h)] = [h \in Guids |-> Info(disk, h)]
    BY <2>4
  <2>6. Stored(u) = Stored(disk)
    BY <2>2, <2>5 DEF Stored, Info
  <2> QED
    BY <2>6 DEF u
<1> QED
  BY <1>1, <1>3, <1>4

LEMMA ThumbnailEffect ==
  ASSUME Inv, args[1] \in Guids, ThumbnailStored
  PROVE  Stored(disk') = Store!Effect("updateThumbnail", args, Stored(disk))
<1> DEFINE g == args[1]
           u == disk'
           s == disk.thumb \union ({g} \ {h \in Guids : disk.media[h] = 0})
<1>1. disk \in Tables
  BY DEF Inv, TypeOK, TableOK
<1>2. /\ u.media = disk.media /\ u.meta = disk.meta /\ u.stack = disk.stack
      /\ u.thumb = s
  BY <1>1 DEF ThumbnailStored, Tables
<1>3. s = disk.thumb \union ({g} \cap {h \in Guids : disk.media[h] # 0})
  OBVIOUS
<1> HIDE DEF u, s
<1>4. [h \in Guids |-> Info(u, h)] = [h \in Guids |-> Info(disk, h)]
  BY <1>2 DEF Info
<1>5. {h \in Guids : u.media[h] # 0} = {h \in Guids : disk.media[h] # 0}
  BY <1>2
<1> DEFINE M == {h \in Guids : disk.media[h] # 0}
           I == [h \in Guids |-> Info(disk, h)]
<1>6. Stored(u) = [media |-> M, info |-> I, thumb |-> s, stack |-> disk.stack]
  BY <1>2, <1>4, <1>5 DEF Stored, Info
<1>7. Stored(disk) = [media |-> M, info |-> I, thumb |-> disk.thumb,
                      stack |-> disk.stack]
  BY DEF Stored, Info
<1>8. Store!Effect("updateThumbnail", args, Stored(disk)) =
        [Stored(disk) EXCEPT !.thumb = @ \union ({g} \cap Stored(disk).media)]
  BY DEF Store!Effect
<1>9. s = disk.thumb \union ({g} \cap M)
  BY <1>3
<1> HIDE DEF M, I
<1>10. Stored(u) = Store!Effect("updateThumbnail", args, Stored(disk))
  BY <1>6, <1>7, <1>8, <1>9
<1> QED
  BY <1>10 DEF u
-----------------------------------------------------------------------------
(* The steps of MediaStore.                                                *)
LEMMA StoreStutters ==
  ASSUME UNCHANGED <<world, op, args, result>>, Stored(disk') = Stored(disk)
  PROVE  UNCHANGED Store!svars
BY DEF Store!svars, Stored, NoLocks

LEMMA StoreTakesEffect ==
  ASSUME UNCHANGED <<world, op, args, result>>,
         op \in {"remove", "updateThumbnail"},
         Stored(disk') = Store!Effect(op, args, Stored(disk))
  PROVE  Store!Next
BY DEF Store!Next, Store!TakeEffect, Stored, NoLocks

LEMMA StoreBegins ==
  ASSUME op = "none", op' \in Operations, args' \in Seq(Guids),
         UNCHANGED <<world, disk, result>>
  PROVE  Store!Next
BY DEF Store!Next, Store!Begin, NoLocks

LEMMA StoreReturns ==
  ASSUME UNCHANGED world, op # "none", op' = "none", args' = <<>>,
         \/ Stored(disk') = Stored(disk)
         \/ Stored(disk') = Store!Effect(op, args, Stored(disk)),
         result' \in {"ok", "error"},
         (op = "add" \/ NoLocks) /\ result' = "ok"
           => Stored(disk') = Store!Effect(op, args, Stored(disk))
  PROVE  Store!Next
<1>1. Store!Truthful = IF NoLocks THEN Operations ELSE {"add"}
  BY DEF Store!Truthful
<1>2. op \in Store!Truthful /\ result' = "ok"
        => Stored(disk') = Store!Effect(op, args, Stored(disk))
  BY <1>1
<1> QED
  BY <1>2 DEF Store!Next, Store!Return, Stored, NoLocks

LEMMA StoreReopens ==
  ASSUME UNCHANGED <<world, disk>>, op' = "none", args' = <<>>, result' = "none"
  PROVE  Store!Next
BY DEF Store!Next, Store!Reopen, NoLocks

(* What an operation that did not end in COMMIT tells is so.               *)
LEMMA NothingToDo ==
  ASSUME Inv, StoreInv, Whole, NoLocks, todo = <<>>, op \in Operations,
         \/ op \in {"get", "getFilename", "countStackItems", "updateInvalid"}
         \/ op = "popStackItem" /\ disk.stack = {}
         \/ op \in {"remove", "updateThumbnail"} /\ e = "ok"
  PROVE  Stored(disk) = Store!Effect(op, args, Stored(disk))
<1> DEFINE g == args[1]
           M == {h \in Guids : disk.media[h] # 0}
           I == [h \in Guids |-> Info(disk, h)]
           R == [media |-> M, info |-> I, thumb |-> disk.thumb,
                 stack |-> disk.stack]
<1>1. OutcomeOK
  BY DEF StoreInv
<1>2. disk \in Tables
  BY DEF Inv, TypeOK, TableOK
<1>3. Stored(disk) = R
  BY DEF Stored, Info
<1>4. g \in Guids
  <2>1. args \in Arguments(op)
    BY DEF Inv, TodoOK, Operations
  <2> QED
    BY <2>1, ArgumentsAre
<1>5. CASE op \in {"get", "getFilename", "countStackItems", "updateInvalid"}
  BY <1>5 DEF Store!Effect
<1>6. CASE op = "popStackItem" /\ disk.stack = {}
  <2>1. Store!Effect(op, args, Stored(disk)) =
          [Stored(disk) EXCEPT !.stack =
             {r \in @ : r[1] # Store!Newest(Stored(disk).stack)}]
    BY <1>6 DEF Store!Effect
  <2>2. {r \in R.stack : r[1] # Store!Newest(R.stack)} = R.stack
    BY <1>6
  <2> HIDE DEF M, I
  <2>3. [R EXCEPT !.stack = R.stack] = R
    OBVIOUS
  <2> HIDE DEF R
  <2> QED
    BY <1>3, <2>1, <2>2, <2>3
<1>7. CASE op = "remove" /\ e = "ok"
  <2>1. Len(todo) <= 1
    OBVIOUS
  <2>2. disk.media[g] = 0
    BY <1>1, <1>7, <2>1 DEF OutcomeOK
  <2>3. g \notin disk.thumb
    BY <2>2 DEF Inv, DataOK, Whole, RowsOK
  <2>4. Info(disk, g) = {}
    BY <2>2 DEF Info
  <2>5. M \ {g} = M /\ disk.thumb \ {g} = disk.thumb /\ [I EXCEPT ![g] = {}] = I
    BY <2>2, <2>3, <2>4
  <2>6. Store!Effect(op, args, Stored(disk)) =
          [Stored(disk) EXCEPT !.media = @ \ {g}, !.info[g] = {},
                               !.thumb = @ \ {g}]
    BY <1>7 DEF Store!Effect
  <2> HIDE DEF M, I
  <2>7. R.media \ {g} = R.media /\ R.thumb \ {g} = R.thumb
        /\ [R.info EXCEPT ![g] = {}] = R.info
    BY <2>5
  <2>8. [R EXCEPT !.media = R.media, !.info = R.info, !.thumb = R.thumb] = R
    OBVIOUS
  <2> HIDE DEF R
  <2>9. [R EXCEPT !.media = @ \ {g}, !.info[g] = {}, !.thumb = @ \ {g}] = R
    BY <2>7, <2>8
  <2> QED
    BY <1>3, <2>6, <2>9
<1>8. CASE op = "updateThumbnail" /\ e = "ok"
  <2>1. disk.thumb \union ({g} \cap M) = disk.thumb
    BY <1>1, <1>8 DEF OutcomeOK
  <2>2. Store!Effect(op, args, Stored(disk)) =
          [Stored(disk) EXCEPT !.thumb = @ \union ({g} \cap Stored(disk).media)]
    BY <1>8 DEF Store!Effect
  <2> HIDE DEF M, I
  <2>3. R.thumb \union ({g} \cap R.media) = R.thumb
    BY <2>1
  <2>4. [R EXCEPT !.thumb = R.thumb] = R
    OBVIOUS
  <2> HIDE DEF R
  <2> QED
    BY <1>3, <2>2, <2>3, <2>4
<1> QED
  BY <1>5, <1>6, <1>7, <1>8

LEMMA NextRefines ==
  ASSUME Inv, StoreInv, Whole, [Next]_vars
  PROVE  [Store!Next]_Store!svars
<1>1. TypeOK /\ TodoOK /\ ConnectionOK
  BY DEF Inv
<1>2. "bumpStackItems" \notin world.ops /\ op # "bumpStackItems"
  BY <1>1 DEF Whole, TypeOK
<1>3. op \in Operations \union {"none"}
  BY <1>1, ProviderAssumption DEF TypeOK
<1>4. ASSUME NEW o \in world.ops, NEW l \in Arguments(o), Start(o, l)
      PROVE  Store!Next
  BY <1>1, <1>4, StartIs, StoreBegins DEF Start
<1>5. CASE Use
  <2>1. UNCHANGED <<world, op, args, result>> /\ todo # <<>>
    BY <1>1, <1>5, UseMoves
  <2>2. args[1] \in Guids
    BY <1>1, <2>1, StatementIs
  <2>3. CASE disk' = disk
    BY <2>1, <2>3, StoreStutters
  <2>4. CASE disk' # disk
    <3>1. op = "remove" \/ (op = "updateThumbnail" /\ ThumbnailStored)
      BY <1>1, <1>2, <1>5, <2>4, UseWritesFile
    <3>2. CASE op = "remove"
      BY <1>5, <2>1, <2>4, <3>2, RemoveEffect, StoreStutters, StoreTakesEffect
    <3>3. CASE op = "updateThumbnail" /\ ThumbnailStored
      BY <2>1, <2>2, <3>3, ThumbnailEffect, StoreTakesEffect
    <3> QED
      BY <3>1, <3>2, <3>3
  <2> QED
    BY <2>3, <2>4
<1>6. CASE Reject
  BY <1>6, StoreStutters DEF Reject, RejectValue
<1>7. CASE Commit
  <2>1. /\ UNCHANGED world /\ op # "none" /\ op' = "none" /\ args' = <<>>
        /\ result' \in {"ok", "error"}
    BY <1>7 DEF Commit, Returns, Bracketed
  <2>2. CASE CanEnd /\ disk' = work
    BY <1>7, <2>1, <2>2, CommitEffect, StoreReturns
  <2>3. CASE disk' = disk /\ result' = "error"
    BY <2>1, <2>3, StoreReturns
  <2> QED
    BY <1>7, <2>2, <2>3 DEF Commit, Returns
<1>8. ASSUME UNCHANGED <<world, disk>>, op # "none", todo = <<>>,
             \E r \in {"ok", "error"} : Returns(r),
             op = "add" => result' = "error",
             NoLocks /\ result' = "ok" =>
               \/ op \in {"get", "getFilename", "countStackItems", "updateInvalid"}
               \/ op = "popStackItem" /\ disk.stack = {}
               \/ op \in {"remove", "updateThumbnail"} /\ e = "ok"
      PROVE  Store!Next
  <2>1. op \in Operations
    BY <1>3, <1>8
  <2>2. /\ op' = "none" /\ args' = <<>> /\ result' \in {"ok", "error"}
    BY <1>8 DEF Returns
  <2>3. (op = "add" \/ NoLocks) /\ result' = "ok"
          => Stored(disk') = Store!Effect(op, args, Stored(disk))
    BY <1>8, <2>1, <2>2, NothingToDo
  <2> QED
    BY <1>8, <2>2, <2>3, StoreReturns
<1>9. CASE Abort
  <2>1. /\ op \in Bracketed /\ todo = <<>> /\ (e = "error" \/ op = "get")
        /\ UNCHANGED <<world, disk>> /\ op # "none"
    BY <1>9 DEF Abort, Bracketed
  <2>2. PICK r \in {"ok", "error"} :
          Returns(r) /\ (op \in {"add", "get"} => r = e)
    BY <1>1, <1>9 DEF Abort, TypeOK
  <2>3. result' = r
    BY <2>2 DEF Returns
  <2>4. op = "add" => result' = "error"
    BY <2>1, <2>2, <2>3
  <2>5. NoLocks /\ result' = "ok" =>
          op \in {"get", "getFilename", "countStackItems", "updateInvalid"}
          \/ (op = "popStackItem" /\ disk.stack = {})
    BY <2>1, <2>4 DEF StoreInv, OutcomeOK
  <2> QED
    BY <1>8, <2>1, <2>2, <2>4, <2>5
<1>10. CASE Return
  <2>1. /\ op \notin Bracketed \union {"none"} /\ todo = <<>>
        /\ UNCHANGED <<world, disk>> /\ Returns(e) /\ e \in {"ok", "error"}
    BY <1>1, <1>10 DEF Return, TypeOK
  <2>2. result' = e
    BY <2>1 DEF Returns
  <2>3. op \in {"getFilename", "countStackItems", "remove", "updateThumbnail"}
    BY <1>3, <2>1 DEF Operations, Bracketed
  <2> QED
    BY <1>8, <2>1, <2>2, <2>3
<1>11. CASE Reopen
  BY <1>11, StoreReopens DEF Reopen, Returns
<1>12. CASE UNCHANGED vars
  BY <1>12, StoreStutters DEF vars
<1> QED
  BY <1>4, <1>5, <1>6, <1>7, <1>9, <1>10, <1>11, <1>12 DEF Next

(* The provider implements MediaStore: an operation takes effect at once   *)
(* or not at all, and reports what MediaStore says, whatever fails, finds  *)
(* the file locked or is cut off by the death of the process.              *)
THEOREM ProviderImplementsStore == Spec => Store!Init /\ StoreIsAtomic
<1>1. Init => Store!Init
  <2> SUFFICES ASSUME Init
               PROVE  Store!Init
    OBVIOUS
  <2>1. disk.media = [g \in Guids |-> 0] /\ disk.meta = {}
        /\ disk.thumb = {} /\ disk.stack = {}
    BY DEF Init, EmptyTables
  <2>2. {g \in Guids : disk.media[g] # 0} = {}
    BY <2>1
  <2>3. \A g \in Guids : Info(disk, g) = {}
    BY <2>1 DEF Info
  <2>4. [g \in Guids |-> Info(disk, g)] = [g \in Guids |-> {}]
    BY <2>3
  <2>5. Stored(disk) = [media |-> {}, info |-> [g \in Guids |-> {}],
                        thumb |-> {}, stack |-> {}]
    BY <2>1, <2>2, <2>4 DEF Stored, Info
  <2>6. op = "none" /\ args = <<>> /\ result = "none" /\ NoLocks \in BOOLEAN
    BY DEF Init, NoLocks
  <2> QED
    BY <2>5, <2>6 DEF Store!Init, Stored
<1>2. Init => StoreInv
  BY DEF Init, StoreInv, ProgressOK, OutcomeOK, Bracketed
<1>3. Inv /\ StoreInv /\ [Next]_vars => StoreInv'
  BY NextStore
<1>4. Spec => []StoreInv
  BY <1>2, <1>3, ProviderInv, PTL DEF Spec
<1>5. Inv /\ StoreInv /\ [Next]_vars =>
        [RemoveIsWhole /\ "bumpStackItems" \notin world.ops
           => [Store!Next]_Store!svars]_vars
  BY NextRefines DEF Whole
<1> QED
  BY <1>1, <1>4, <1>5, ProviderInv, PTL DEF Spec, StoreIsAtomic
=============================================================================
