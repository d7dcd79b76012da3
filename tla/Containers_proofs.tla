-------------------------- MODULE Containers_proofs --------------------------
(***************************************************************************)
(* Theorems about the containers, each for itself: HashMap, for any keys,  *)
(* values and hash function and for any use of it; JobList, for any number *)
(* of threads that add and any memory for jobs; ArrayList, for any objects *)
(* and any length.                                                         *)
(***************************************************************************)
EXTENDS HashMap, JobList, ArrayList, FiniteSetTheorems, WellFoundedInduction,
        TLAPS

-----------------------------------------------------------------------------
(* HashMap.                                                                *)
(* All entries of a table of n chains, and a table in which each of them   *)
(* is where its hash says.                                                 *)
All(t, n) == UNION {t[h] : h \in 0..(n - 1)}
IsTable(t, n) ==
  /\ t \in [0..(n - 1) -> SUBSET Entry]
  /\ \A h \in 0..(n - 1) : \A x \in t[h] : Hash[x.key] % n = h

(* A set of entries without two of the same key, as a function, and the    *)
(* entries of one key in it.                                               *)
Single(C) == \A x, y \in C : x.key = y.key => x = y
AsMap(C) == [k \in {x.key : x \in C} |-> (CHOOSE x \in C : x.key = k).val]
OfKey(C, k) == {x \in C : x.key = k}
With(C, k, v) == (C \ OfKey(C, k)) \union {Pair(k, v)}
Without(C, k) == C \ OfKey(C, k)

(* A function changed at one key.                                          *)
PutAt(f, k, v) == [l \in DOMAIN f \union {k} |-> IF l = k THEN v ELSE f[l]]
DropAt(f, k) == [l \in DOMAIN f \ {k} |-> f[l]]

(* An iterator that will not fail has returned the chains before its place *)
(* and nothing of those behind it.                                         *)
Follows ==
  /\ iter.made = built
  /\ iter.returned \subseteq Contents
  /\ \A h \in 0..(capacity - 1) :
       /\ h < iter.pos => entries[h] \subseteq iter.returned
       /\ h > iter.pos => entries[h] \intersect iter.returned = {}
  /\ IF iter.i = None THEN iter.returned = Contents
     ELSE iter.pos \in 0..(capacity - 1) /\ iter.i \in entries[iter.pos] \ iter.returned

WalkOK ==
  /\ NoPutSame /\ iter # None /\ iter.mc = modified /\ Running => Follows
  /\ NoLeaving => freed = {}

HInv == TableIsRight /\ IsFiniteSet(Contents) /\ WalkOK

---------------------------------------------------------------------------
(* Tables.                                                                 *)

(* A key has a chain in every table that has one.                          *)
LEMMA HasChain ==
  ASSUME NEW n \in Nat \ {0}, NEW k \in Keys
  PROVE  Hash[k] % n \in 0..(n - 1)
<1>1. Hash[k] \in Nat BY HashMapAssumption
<1> QED BY <1>1

(* reallocData() keeps all entries, each in its chain.                     *)
LEMMA Rehashed ==
  ASSUME NEW n \in Nat \ {0}, NEW C \in SUBSET Entry,
         NEW t, t = [h \in 0..(n - 1) |-> {x \in C : Hash[x.key] % n = h}]
  PROVE  IsTable(t, n) /\ All(t, n) = C
<1>1. \A x \in C : Hash[x.key] % n \in 0..(n - 1)
  BY HasChain DEF Entry
<1>2. IsTable(t, n)
  BY DEF IsTable
<1>3. \A x \in C : x \in t[Hash[x.key] % n]
  BY <1>1
<1>4. \A h \in 0..(n - 1) : t[h] \subseteq C
  OBVIOUS
<1> QED BY <1>1, <1>2, <1>3, <1>4 DEF All

(* What getEntry() finds is all there is of the key.                       *)
LEMMA FoundIsAll ==
  ASSUME NEW n \in Nat \ {0}, NEW t, IsTable(t, n), NEW k \in Keys
  PROVE  Found(t, n, k) = OfKey(All(t, n), k)
<1>1. Hash[k] % n \in 0..(n - 1) BY HasChain
<1>2. \A x \in Found(t, n, k) : x \in All(t, n) /\ x.key = k
  BY <1>1 DEF Found, All
<1>3. ASSUME NEW x \in All(t, n), x.key = k PROVE x \in t[Hash[k] % n]
  <2>1. PICK h \in 0..(n - 1) : x \in t[h] BY DEF All
  <2> QED BY <2>1, <1>3 DEF IsTable
<1> QED BY <1>2, <1>3 DEF Found, OfKey

(* u is the table t with D removed from the chain of k and A added to it.  *)
Changes(t, u, n, k, D, A) ==
  /\ n \in Nat \ {0} /\ IsTable(t, n) /\ k \in Keys
  /\ D \subseteq OfKey(All(t, n), k) /\ A \subseteq OfKey(Entry, k)
  /\ u \in [0..(n - 1) -> SUBSET Entry]
  /\ u[Hash[k] % n] = (t[Hash[k] % n] \ D) \union A
  /\ \A h \in 0..(n - 1) : h # Hash[k] % n => u[h] = t[h]

(* A chain changes at one key, and so does the table.                      *)
LEMMA ChainChanged ==
  ASSUME NEW t, NEW u, NEW n, NEW k, NEW D, NEW A, Changes(t, u, n, k, D, A)
  PROVE  IsTable(u, n) /\ All(u, n) = (All(t, n) \ D) \union A
<1> DEFINE i == Hash[k] % n
<1> USE DEF Changes
<1>1. i \in 0..(n - 1) BY HasChain
<1>2. \A h \in 0..(n - 1) : \A x \in u[h] : Hash[x.key] % n = h
  <2>1. \A x \in (t[i] \ D) \union A : Hash[x.key] % n = i
    BY <1>1 DEF IsTable, OfKey
  <2> QED BY <2>1 DEF IsTable
<1>3. \A h \in 0..(n - 1) : h # i => t[h] \intersect D = {}
  BY DEF IsTable, OfKey
<1>4. ASSUME NEW x PROVE x \in All(u, n) <=> x \in (All(t, n) \ D) \union A
  <2>1. x \in All(u, n) <=> \E h \in 0..(n - 1) : x \in u[h] BY DEF All
  <2>2. x \in All(t, n) <=> \E h \in 0..(n - 1) : x \in t[h] BY DEF All
  <2> QED BY <1>1, <1>3, <2>1, <2>2
<1>5. All(u, n) = (All(t, n) \ D) \union A BY <1>4
<1> QED BY <1>2, <1>5 DEF IsTable

---------------------------------------------------------------------------
(* Sets of entries as functions.                                           *)

(* The function has at the key of an entry its value.                      *)
LEMMA AsMapAt ==
  ASSUME NEW C, Single(C), NEW x \in C
  PROVE  x.key \in DOMAIN AsMap(C) /\ AsMap(C)[x.key] = x.val
<1>1. (CHOOSE y \in C : y.key = x.key) = x BY DEF Single
<1> QED BY <1>1 DEF AsMap

(* A new entry instead of those of its key is a new value at that key.     *)
LEMMA AsMapPut ==
  ASSUME NEW C \in SUBSET Entry, Single(C), NEW k \in Keys, NEW v \in Vals,
         NEW B, B = With(C, k, v)
  PROVE  /\ Single(B) /\ B \subseteq Entry
         /\ AsMap(B) = PutAt(AsMap(C), k, v)
<1>1. Pair(k, v) \in Entry /\ Pair(k, v).key = k /\ Pair(k, v).val = v
  BY DEF Pair, Entry
<1>2. \A x \in B : x = Pair(k, v) \/ (x \in C /\ x.key # k)
  BY DEF OfKey, With
<1>3. \A x \in C : x.key # k => x \in B
  BY DEF OfKey, With
<1>4. Pair(k, v) \in B
  BY DEF With
<1>5. Single(B)
  BY <1>1, <1>2 DEF Single
<1>6. DOMAIN AsMap(B) = DOMAIN AsMap(C) \union {k}
  <2>1. DOMAIN AsMap(B) = {x.key : x \in B} BY DEF AsMap
  <2>2. DOMAIN AsMap(C) = {x.key : x \in C} BY DEF AsMap
  <2>3. \A l : l \in {x.key : x \in B} => l \in {x.key : x \in C} \union {k}
    BY <1>1, <1>2
  <2>4. \A l : l \in {x.key : x \in C} \union {k} => l \in {x.key : x \in B}
    BY <1>1, <1>3, <1>4
  <2> QED BY <2>1, <2>2, <2>3, <2>4
<1>7. ASSUME NEW l \in DOMAIN AsMap(B)
      PROVE  AsMap(B)[l] = IF l = k THEN v ELSE AsMap(C)[l]
  <2>1. PICK x \in B : l = x.key BY DEF AsMap
  <2>2. AsMap(B)[l] = x.val BY <1>5, <2>1, AsMapAt
  <2>3. CASE x = Pair(k, v) BY <1>1, <2>1, <2>2, <2>3
  <2>4. CASE x \in C /\ x.key # k BY <2>1, <2>2, <2>4, AsMapAt
  <2> QED BY <1>2, <2>3, <2>4
<1>8. AsMap(B) = [l \in DOMAIN AsMap(B) |-> AsMap(B)[l]] BY DEF AsMap
<1> QED BY <1>1, <1>2, <1>5, <1>6, <1>7, <1>8 DEF PutAt

(* Without the entry of a key the function is the same without that key.   *)
LEMMA AsMapRemove ==
  ASSUME NEW C \in SUBSET Entry, Single(C), NEW k \in Keys,
         OfKey(C, k) # {}, NEW B, B = Without(C, k)
  PROVE  /\ Single(B) /\ B \subseteq Entry
         /\ k \in DOMAIN AsMap(C)
         /\ AsMap(B) = DropAt(AsMap(C), k)
<1>1. \A x : x \in B <=> x \in C /\ x.key # k BY DEF OfKey, Without
<1>2. Single(B) BY <1>1 DEF Single
<1>3. k \in DOMAIN AsMap(C)
  <2>1. PICK x \in C : x.key = k BY DEF OfKey
  <2> QED BY <2>1, AsMapAt
<1>4. DOMAIN AsMap(B) = DOMAIN AsMap(C) \ {k}
  <2>1. DOMAIN AsMap(B) = {x.key : x \in B} BY DEF AsMap
  <2>2. DOMAIN AsMap(C) = {x.key : x \in C} BY DEF AsMap
  <2> QED BY <1>1, <2>1, <2>2
<1>5. ASSUME NEW l \in DOMAIN AsMap(B) PROVE AsMap(B)[l] = AsMap(C)[l]
  <2>1. PICK x \in B : l = x.key BY DEF AsMap
  <2> QED BY <1>1, <1>2, <2>1, AsMapAt
<1>6. AsMap(B) = [l \in DOMAIN AsMap(B) |-> AsMap(B)[l]] BY DEF AsMap
<1> QED BY <1>1, <1>2, <1>3, <1>4, <1>5, <1>6 DEF DropAt

(* A key has one entry or none, and the set counts accordingly.            *)
LEMMA CountsPut ==
  ASSUME NEW C \in SUBSET Entry, Single(C), IsFiniteSet(C), NEW k, NEW v,
         NEW B, B = With(C, k, v)
  PROVE  /\ IsFiniteSet(B)
         /\ OfKey(C, k) = {} => Cardinality(B) = Cardinality(C) + 1
         /\ OfKey(C, k) # {} => Cardinality(B) = Cardinality(C)
<1>1. Pair(k, v).key = k BY DEF Pair
<1>2. CASE OfKey(C, k) = {}
  <2>1. Pair(k, v) \notin C BY <1>1, <1>2 DEF OfKey
  <2>2. B = C \union {Pair(k, v)} BY <1>2 DEF With
  <2> QED BY <1>2, <2>1, <2>2, FS_AddElement
<1>3. CASE OfKey(C, k) # {}
  <2>1. PICK x \in C : x.key = k BY <1>3 DEF OfKey
  <2>2. OfKey(C, k) = {x} BY <2>1 DEF OfKey, Single
  <2>3. IsFiniteSet(C \ {x}) /\ Cardinality(C \ {x}) = Cardinality(C) - 1
    BY FS_RemoveElement
  <2>4. Pair(k, v) \notin C \ {x} BY <1>1, <2>1 DEF Single
  <2>5. Cardinality(C) \in Nat BY FS_CardinalityType
  <2>6. B = (C \ {x}) \union {Pair(k, v)} BY <2>2 DEF With
  <2>7. IsFiniteSet(B) /\ Cardinality(B) = Cardinality(C \ {x}) + 1
    BY <2>3, <2>4, <2>6, FS_AddElement
  <2> QED BY <1>3, <2>3, <2>5, <2>7
<1> QED BY <1>2, <1>3

LEMMA CountsRemove ==
  ASSUME NEW C \in SUBSET Entry, Single(C), IsFiniteSet(C), NEW k,
         OfKey(C, k) # {}, NEW B, B = Without(C, k)
  PROVE  IsFiniteSet(B) /\ Cardinality(B) = Cardinality(C) - 1
<1>1. PICK x \in C : x.key = k BY DEF OfKey
<1>2. OfKey(C, k) = {x} BY <1>1 DEF OfKey, Single
<1> QED BY <1>2, FS_RemoveElement DEF Without

---------------------------------------------------------------------------
(* Steps.                                                                  *)

LEMMA ContentsAreAll == Contents = All(entries, capacity)
BY DEF Contents, All

(* The table of the present state.                                         *)
LEMMA TableNow ==
  ASSUME HInv
  PROVE  /\ IsTable(entries, capacity) /\ Contents \in SUBSET Entry
         /\ Single(Contents) /\ IsFiniteSet(Contents)
         /\ count \in Nat /\ capacity \in Nat /\ modified \in Nat /\ built \in Nat
         /\ use.keys \subseteq Keys /\ use.vals \subseteq Vals
<1>1. IsTable(entries, capacity)
  BY DEF HInv, TableIsRight, HashMapTypeOK, Placed, IsTable
<1>2. Contents \in SUBSET Entry BY <1>1 DEF Contents, IsTable
<1>3. use.keys \subseteq Keys /\ use.vals \subseteq Vals
  BY HashMapAssumption DEF HInv, TableIsRight, HashMapTypeOK
<1> QED
  BY <1>1, <1>2, <1>3 DEF HInv, TableIsRight, HashMapTypeOK, KeysUnique, Single

(* The table that put() goes on with has a free chain, and all entries.    *)
LEMMA TableGrows ==
  ASSUME HInv
  PROVE  /\ Grown \in Nat \ {0} /\ count + 1 <= Grown
         /\ IsTable(Table, Grown) /\ All(Table, Grown) = Contents
<1>1. Grown \in Nat \ {0} /\ count + 1 <= Grown
  BY TableNow DEF Grown, HInv, TableIsRight, CountIsRight
<1>2. CASE Grown = capacity
  BY <1>1, <1>2, TableNow, ContentsAreAll DEF Table
<1>3. CASE Grown # capacity
  BY <1>1, <1>3, TableNow, Rehashed DEF Table, Rehash
<1> QED BY <1>1, <1>2, <1>3

(* A modification that leaves the table right and is counted leaves no     *)
(* iterator whose check would pass.                                        *)
LEMMA ModifiedKeeps ==
  ASSUME HInv,
         count' \in Nat, capacity' \in Nat, count' <= capacity',
         IsTable(entries', capacity'),
         Single(Contents'), IsFiniteSet(Contents'),
         count' = Cardinality(Contents'),
         modified' \in Nat, modified' > modified,
         built' \in Nat, built' >= built,
         UNCHANGED <<use, iter, freed, stopped>>
  PROVE  HInv'
<1>1. HashMapTypeOK'
  <2>1. iter \in {None} \union [mc : 0..modified', made : 0..built', pos : Nat,
                               i : Entry \union {None}, returned : SUBSET Entry]
    BY TableNow DEF HInv, TableIsRight, HashMapTypeOK
  <2> QED BY <2>1 DEF HInv, TableIsRight, HashMapTypeOK, IsTable
<1>2. Placed' BY DEF Placed, IsTable
<1>3. KeysUnique' BY DEF KeysUnique, Single
<1>4. CountIsRight' BY DEF CountIsRight
<1>5. WalkOK'
  <2>1. iter # None => iter.mc # modified'
    BY TableNow DEF HInv, TableIsRight, HashMapTypeOK
  <2> QED BY <2>1 DEF HInv, WalkOK, NoLeaving
<1> QED BY <1>1, <1>2, <1>3, <1>4, <1>5 DEF HInv, TableIsRight

(* put(): one entry instead of those of its key.                           *)
LEMMA PutNewKeeps ==
  ASSUME HInv, NEW k \in use.keys, NEW v \in use.vals, PutNew(k, v)
  PROVE  /\ HInv'
         /\ Contents' = With(Contents, k, v)
<1>1. k \in Keys /\ v \in Vals BY TableNow
<1>2. OfKey(Contents, k) = {}
  BY <1>1, TableGrows, FoundIsAll DEF PutNew
<1>3. {Pair(k, v)} \subseteq OfKey(Entry, k) BY <1>1 DEF OfKey, Pair, Entry
<1>4. /\ IsTable(entries', capacity')
      /\ Contents' = With(Contents, k, v)
  <2> DEFINE i == Hash[k] % Grown
             u == [Table EXCEPT ![i] = (Table[i] \ {}) \union {Pair(k, v)}]
  <2>1. entries' = u /\ capacity' = Grown
    BY DEF PutNew, Build
  <2>2. {} \subseteq OfKey(All(Table, Grown), k) OBVIOUS
  <2>3. /\ IsTable(u, Grown)
        /\ All(u, Grown) = (All(Table, Grown) \ {}) \union {Pair(k, v)}
    <3>1. Grown \in Nat \ {0} /\ IsTable(Table, Grown) BY TableGrows
    <3>2. i \in 0..(Grown - 1) BY <1>1, <3>1, HasChain
    <3>3. /\ u \in [0..(Grown - 1) -> SUBSET Entry]
          /\ u[i] = (Table[i] \ {}) \union {Pair(k, v)}
          /\ \A h \in 0..(Grown - 1) : h # i => u[h] = Table[h]
      BY <1>3, <3>1, <3>2 DEF IsTable, OfKey
    <3>4. Changes(Table, u, Grown, k, {}, {Pair(k, v)})
      BY <1>1, <1>3, <2>2, <3>1, <3>3 DEF Changes
    <3> HIDE DEF u
    <3> QED BY <3>4, ChainChanged
  <2> HIDE DEF u
  <2>4. Contents' = All(entries', capacity') BY DEF Contents, All
  <2> QED BY <1>2, <2>1, <2>3, <2>4, TableGrows DEF With
<1>5. Single(Contents') BY <1>1, <1>4, TableNow, AsMapPut
<1>6. IsFiniteSet(Contents') /\ Cardinality(Contents') = count + 1
  BY <1>2, <1>4, TableNow, CountsPut DEF HInv, TableIsRight, CountIsRight
<1>7. /\ count' = count + 1 /\ capacity' = Grown /\ modified' = modified + 1
      /\ built' \in {built, built + 1} /\ UNCHANGED <<use, iter, freed, stopped>>
  BY DEF PutNew, Build
<1>8. HInv'
  BY <1>4, <1>5, <1>6, <1>7, TableNow, TableGrows, ModifiedKeeps
<1> QED BY <1>4, <1>8

LEMMA PutOverKeeps ==
  ASSUME HInv, NEW k \in use.keys, NEW v \in use.vals, PutOver(k, v)
  PROVE  /\ HInv'
         /\ Contents' = With(Contents, k, v)
<1>1. k \in Keys /\ v \in Vals BY TableNow
<1>2. Found(Table, Grown, k) = OfKey(Contents, k) /\ OfKey(Contents, k) # {}
  BY <1>1, TableGrows, FoundIsAll DEF PutOver
<1>3. {Pair(k, v)} \subseteq OfKey(Entry, k) BY <1>1 DEF OfKey, Pair, Entry
<1>4. /\ IsTable(entries', capacity')
      /\ Contents' = With(Contents, k, v)
  <2> DEFINE i == Hash[k] % Grown
             D == OfKey(Contents, k)
             u == [Table EXCEPT ![i] = (Table[i] \ D) \union {Pair(k, v)}]
  <2>1. entries' = u /\ capacity' = Grown
    BY <1>2 DEF PutOver, Build
  <2>2. D \subseteq OfKey(All(Table, Grown), k) BY TableGrows
  <2>3. /\ IsTable(u, Grown)
        /\ All(u, Grown) = (All(Table, Grown) \ D) \union {Pair(k, v)}
    <3>1. Grown \in Nat \ {0} /\ IsTable(Table, Grown) BY TableGrows
    <3>2. i \in 0..(Grown - 1) BY <1>1, <3>1, HasChain
    <3>3. /\ u \in [0..(Grown - 1) -> SUBSET Entry]
          /\ u[i] = (Table[i] \ D) \union {Pair(k, v)}
          /\ \A h \in 0..(Grown - 1) : h # i => u[h] = Table[h]
      BY <1>3, <3>1, <3>2 DEF IsTable, OfKey
    <3>4. Changes(Table, u, Grown, k, D, {Pair(k, v)})
      <4> HIDE DEF D, u
      <4> QED BY <1>1, <1>3, <2>2, <3>1, <3>3 DEF Changes
    <3> HIDE DEF u, D
    <3> QED BY <3>4, ChainChanged
  <2> HIDE DEF u
  <2>4. Contents' = All(entries', capacity') BY DEF Contents, All
  <2> QED BY <2>1, <2>3, <2>4, TableGrows DEF With
<1>5. Single(Contents') BY <1>1, <1>4, TableNow, AsMapPut
<1>6. IsFiniteSet(Contents') /\ Cardinality(Contents') = count
  BY <1>2, <1>4, TableNow, CountsPut DEF HInv, TableIsRight, CountIsRight
<1>7. /\ count' = count /\ capacity' = Grown /\ modified' = modified + 1
      /\ built' \in {built, built + 1} /\ UNCHANGED <<use, iter, freed, stopped>>
  BY DEF PutOver, Build
<1>8. HInv'
  BY <1>4, <1>5, <1>6, <1>7, TableNow, TableGrows, ModifiedKeeps
<1> QED BY <1>4, <1>8

(* put() of what is there may make a table, and no other map.              *)
LEMMA PutSameKeeps ==
  ASSUME HInv, NEW k \in use.keys, PutSame(k)
  PROVE  HInv' /\ Contents' = Contents
<1>1. /\ entries' = Table /\ capacity' = Grown /\ built' \in {built, built + 1}
      /\ UNCHANGED <<use, count, modified, iter, freed, stopped>>
      /\ NoPutSame => iter = None
  BY DEF PutSame, Build, NoPutSame
<1>2. Contents' = Contents /\ IsTable(entries', capacity')
  BY <1>1, TableGrows DEF Contents, All
<1>3. HashMapTypeOK'
  <2>1. iter \in {None} \union [mc : 0..modified, made : 0..built', pos : Nat,
                               i : Entry \union {None}, returned : SUBSET Entry]
    BY <1>1, TableNow DEF HInv, TableIsRight, HashMapTypeOK
  <2> QED BY <1>1, <1>2, <2>1, TableNow, TableGrows
          DEF HInv, TableIsRight, HashMapTypeOK, IsTable
<1>4. Placed' BY <1>2 DEF Placed, IsTable
<1>5. KeysUnique' BY <1>2 DEF KeysUnique, HInv, TableIsRight
<1>6. CountIsRight'
  BY <1>1, <1>2, TableNow, TableGrows DEF CountIsRight, HInv, TableIsRight
<1>7. WalkOK' BY <1>1 DEF WalkOK, NoPutSame, NoLeaving, HInv
<1> QED BY <1>2, <1>3, <1>4, <1>5, <1>6, <1>7 DEF HInv, TableIsRight

(* remove(): shrinking, clearing or neither, the entry is gone.            *)
LEMMA RemoveKeeps ==
  ASSUME HInv, NEW k \in use.keys, Remove(k)
  PROVE  /\ HInv' /\ OfKey(Contents, k) # {}
         /\ Contents' = Without(Contents, k)
<1> DEFINE gone == Found(entries, capacity, k)
           B == Without(Contents, k)
<1>1. k \in Keys BY TableNow
<1>2. count > 0 /\ capacity \in Nat \ {0} /\ count <= capacity
  BY TableNow DEF Remove, HInv, TableIsRight, CountIsRight
<1>3. gone = OfKey(Contents, k) /\ gone # {}
  BY <1>1, <1>2, TableNow, ContentsAreAll, FoundIsAll DEF Remove
<1>4. B \in SUBSET Entry /\ Single(B)
  BY <1>1, <1>3, TableNow, AsMapRemove
<1>5. IsFiniteSet(B) /\ Cardinality(B) = count - 1
  BY <1>3, TableNow, CountsRemove DEF HInv, TableIsRight, CountIsRight
<1>6. count' = count - 1 /\ UNCHANGED <<use, iter, freed, stopped>>
  BY DEF Remove
<1>7. /\ IsTable(entries', capacity') /\ Contents' = B
      /\ capacity' \in Nat /\ count - 1 <= capacity'
      /\ modified' \in {modified + 1, modified + 2}
      /\ built' \in {built, built + 1}
  <2>1. CASE capacity > 7 /\ count - 1 < capacity \div 3 /\ count = 1
    <3>1. /\ entries' = [h \in {} |-> {}] /\ capacity' = 0
          /\ built' = built + 1 /\ modified' = modified + 2
      BY <2>1 DEF Remove, Empty
    <3>2. B = {} BY <1>5, <2>1, FS_EmptySet
    <3>3. Contents' = {} BY <3>1 DEF Contents
    <3> QED BY <2>1, <3>1, <3>2, <3>3 DEF IsTable
  <2>2. CASE capacity > 7 /\ count - 1 < capacity \div 3 /\ count # 1
    <3>1. /\ entries' = [h \in 0..(Shrunk - 1) |-> {x \in B : Hash[x.key] % Shrunk = h}]
          /\ capacity' = Shrunk /\ built' \in {built, built + 1}
          /\ modified' = modified + 1
      BY <1>3, <2>2 DEF Remove, Build, Without
    <3>2. Shrunk \in Nat \ {0} /\ count - 1 <= Shrunk
      BY <1>2, <2>2, TableNow DEF Shrunk
    <3>3. IsTable(entries', Shrunk) /\ All(entries', Shrunk) = B
      BY <1>4, <3>1, <3>2, Rehashed
    <3> QED BY <3>1, <3>2, <3>3 DEF Contents, All
  <2>3. CASE ~(capacity > 7 /\ count - 1 < capacity \div 3)
    <3> DEFINE i == Hash[k] % capacity
               D == OfKey(Contents, k)
               u == [entries EXCEPT ![i] = (entries[i] \ D) \union {}]
    <3>1. entries' = u /\ capacity' = capacity /\ built' = built
          /\ modified' = modified + 1
      BY <1>3, <2>3 DEF Remove
    <3>2. D \subseteq OfKey(All(entries, capacity), k) BY ContentsAreAll
    <3>3. /\ IsTable(u, capacity)
          /\ All(u, capacity) = (All(entries, capacity) \ D) \union {}
      <4>1. capacity \in Nat \ {0} /\ IsTable(entries, capacity) BY <1>2, TableNow
      <4>2. i \in 0..(capacity - 1) BY <1>1, <4>1, HasChain
      <4>3. /\ u \in [0..(capacity - 1) -> SUBSET Entry]
            /\ u[i] = (entries[i] \ D) \union {}
            /\ \A h \in 0..(capacity - 1) : h # i => u[h] = entries[h]
        BY <4>1, <4>2 DEF IsTable
      <4>4. {} \subseteq OfKey(Entry, k) OBVIOUS
      <4> HIDE DEF u, D
      <4>5. Changes(entries, u, capacity, k, D, {})
        BY <1>1, <3>2, <4>1, <4>3, <4>4 DEF Changes
      <4> QED BY <4>5, ChainChanged
    <3> HIDE DEF u
    <3>4. Contents' = All(entries', capacity') BY DEF Contents, All
    <3> QED BY <1>2, <3>1, <3>3, <3>4, ContentsAreAll, TableNow DEF Without
  <2> QED BY <2>1, <2>2, <2>3
<1>8. HInv'
  <2>1. Single(Contents') /\ IsFiniteSet(Contents') /\ Cardinality(Contents') = count'
    BY <1>4, <1>5, <1>6, <1>7
  <2> QED BY <1>2, <1>6, <1>7, <2>1, TableNow, ModifiedKeeps
<1> QED BY <1>3, <1>7, <1>8

LEMMA ClearKeeps ==
  ASSUME HInv, Clear
  PROVE  HInv' /\ Contents' = {}
<1>1. /\ entries' = [h \in {} |-> {}] /\ capacity' = 0 /\ built' = built + 1
      /\ count' = 0 /\ modified' = modified + 1
      /\ UNCHANGED <<use, iter, freed, stopped>>
  BY DEF Clear, Empty
<1>2. Contents' = {} BY <1>1 DEF Contents
<1>3. IsTable(entries', 0) BY <1>1 DEF IsTable
<1>4. IsFiniteSet(Contents') /\ Cardinality(Contents') = 0 BY <1>2, FS_EmptySet
<1>5. HInv' BY <1>1, <1>2, <1>3, <1>4, TableNow, ModifiedKeeps DEF Single
<1> QED BY <1>2, <1>5

---------------------------------------------------------------------------
(* Walks.                                                                  *)

(* nextPos() is an entry or the end.                                       *)
LEMMA NextPosType ==
  ASSUME HInv, NEW pos \in Nat \union {-1}, NEW done, NEW n \in NextPos(pos, done)
  PROVE  n.pos \in Nat /\ n.i \in Entry \union {None}
<1> DEFINE here == IF pos \in 0..(capacity - 1) THEN entries[pos] \ done ELSE {}
           later == {h \in (pos + 1)..(capacity - 1) : entries[h] # {}}
           first == {h \in later : \A g \in later : h <= g}
<1>1. capacity \in Nat /\ \A h \in 0..(capacity - 1) : entries[h] \subseteq Entry
  BY TableNow DEF IsTable
<1>2. CASE here # {}
  <2>1. here \subseteq Entry BY <1>1
  <2>2. NextPos(pos, done) = [pos : {pos}, i : here] BY <1>2 DEF NextPos
  <2>3. pos \in Nat BY <1>1, <1>2
  <2> HIDE DEF here
  <2> QED BY <2>1, <2>2, <2>3
<1>3. CASE here = {} /\ later # {}
  <2>1. NextPos(pos, done) = UNION {[pos : {h}, i : entries[h]] : h \in first}
    BY <1>3 DEF NextPos
  <2>2. \A h \in first : h \in 0..(capacity - 1) BY <1>1
  <2>3. PICK h \in first : n \in [pos : {h}, i : entries[h]]
    <3> HIDE DEF first
    <3> QED BY <2>1
  <2> QED BY <1>1, <2>2, <2>3
<1>4. CASE here = {} /\ later = {}
  BY <1>1, <1>4 DEF NextPos
<1> QED BY <1>2, <1>3, <1>4

(* Where an iterator stands, or has come to the end: chains before that    *)
(* place are empty but for what is done, or there is nothing left.         *)
LEMMA NextPosFollows ==
  ASSUME HInv, NEW pos \in -1..(capacity - 1), NEW done, done \subseteq Contents,
         \A h \in 0..(capacity - 1) :
           /\ h < pos => entries[h] \subseteq done
           /\ h > pos => entries[h] \intersect done = {},
         NEW n \in NextPos(pos, done)
  PROVE  /\ n.pos \in Nat /\ n.i \in Entry \union {None}
         /\ \A h \in 0..(capacity - 1) :
              /\ h < n.pos => entries[h] \subseteq done
              /\ h > n.pos => entries[h] \intersect done = {}
         /\ IF n.i = None THEN done = Contents
            ELSE n.pos \in 0..(capacity - 1) /\ n.i \in entries[n.pos] \ done
<1> DEFINE here == IF pos \in 0..(capacity - 1) THEN entries[pos] \ done ELSE {}
           later == {h \in (pos + 1)..(capacity - 1) : entries[h] # {}}
<1>1. /\ capacity \in Nat
      /\ \A h \in 0..(capacity - 1) : entries[h] \subseteq Entry
      /\ None \notin Entry
  BY TableNow, HashMapAssumption DEF IsTable, Entry
<1>2. CASE here # {}
  <2>1. n.pos = pos /\ n.i \in here
    <3>1. NextPos(pos, done) = [pos : {pos}, i : here] BY <1>2 DEF NextPos
    <3> HIDE DEF here
    <3> QED BY <3>1
  <2>2. pos \in 0..(capacity - 1) /\ n.i \in entries[pos] \ done
    BY <1>2, <2>1
  <2> HIDE DEF here, later
  <2> QED BY <1>1, <2>1, <2>2
<1>3. CASE here = {} /\ later # {}
  <2> DEFINE first == {h \in later : \A g \in later : h <= g}
  <2>1. PICK h \in first : n \in [pos : {h}, i : entries[h]]
    <3>1. NextPos(pos, done) = UNION {[pos : {h}, i : entries[h]] : h \in first}
      BY <1>3 DEF NextPos
    <3> HIDE DEF first
    <3> QED BY <3>1
  <2>2. n.pos = h /\ n.i \in entries[h] BY <2>1
  <2>3. h \in 0..(capacity - 1) /\ h > pos BY <1>1
  <2>4. \A g \in 0..(capacity - 1) : g < h /\ g > pos => entries[g] = {}
    BY <1>1, <2>3
  <2>5. \A g \in 0..(capacity - 1) : g < h => entries[g] \subseteq done
    <3> SUFFICES ASSUME NEW g \in 0..(capacity - 1), g < h
                 PROVE  entries[g] \subseteq done
      OBVIOUS
    <3>1. CASE g < pos BY <3>1
    <3>2. CASE g = pos BY <1>3, <3>2
    <3>3. CASE g > pos BY <2>4, <3>3
    <3> QED BY <1>1, <3>1, <3>2, <3>3
  <2>6. \A g \in 0..(capacity - 1) : g > h => entries[g] \intersect done = {}
    BY <1>1, <2>3
  <2>7. n.i \notin done BY <2>2, <2>3
  <2> HIDE DEF first, here, later
  <2> QED BY <1>1, <2>2, <2>3, <2>5, <2>6, <2>7
<1>4. CASE here = {} /\ later = {}
  <2>1. n.pos = capacity /\ n.i = None
    BY <1>4 DEF NextPos
  <2>2. \A g \in 0..(capacity - 1) : entries[g] \subseteq done
    <3> SUFFICES ASSUME NEW g \in 0..(capacity - 1)
                 PROVE  entries[g] \subseteq done
      OBVIOUS
    <3>1. CASE g < pos BY <3>1
    <3>2. CASE g = pos BY <1>4, <3>2
    <3>3. CASE g > pos BY <1>1, <1>4, <3>3
    <3> QED BY <1>1, <3>1, <3>2, <3>3
  <2>3. done = Contents BY <2>2 DEF Contents
  <2> QED BY <1>1, <2>1, <2>2, <2>3
<1> QED BY <1>2, <1>3, <1>4

(* A new iterator has returned nothing.                                    *)
LEMMA IterateKeeps ==
  ASSUME HInv, Iterate
  PROVE  HInv' /\ Contents' = Contents
<1>1. PICK n \in NextPos(-1, {}) :
        iter' = [mc |-> modified, made |-> built, pos |-> n.pos, i |-> n.i,
                 returned |-> {}]
  BY DEF Iterate
<1>2. UNCHANGED <<use, count, capacity, modified, entries, built, freed, stopped>>
  BY DEF Iterate
<1>3. /\ n.pos \in Nat /\ n.i \in Entry \union {None}
      /\ \A h \in 0..(capacity - 1) :
           /\ h < n.pos => entries[h] \subseteq {}
           /\ h > n.pos => entries[h] \intersect {} = {}
      /\ IF n.i = None THEN {} = Contents
         ELSE n.pos \in 0..(capacity - 1) /\ n.i \in entries[n.pos] \ {}
  BY TableNow, NextPosFollows
<1>4. HashMapTypeOK'
  BY <1>1, <1>2, <1>3, TableNow DEF HInv, TableIsRight, HashMapTypeOK, Entry
<1>5. Contents' = Contents BY <1>2 DEF Contents
<1>6. Placed' /\ KeysUnique' /\ CountIsRight'
  BY <1>2, <1>5 DEF HInv, TableIsRight, Placed, KeysUnique, CountIsRight
<1>7. Follows'
  BY <1>1, <1>2, <1>3, <1>5 DEF Follows
<1>8. WalkOK' BY <1>2, <1>7 DEF HInv, WalkOK, NoLeaving
<1> QED BY <1>4, <1>5, <1>6, <1>8 DEF HInv, TableIsRight

(* The iterator returns what it stands on and goes to the first place.      *)
LEMMA NextEntryKeeps ==
  ASSUME HInv, NextEntry
  PROVE  /\ HInv' /\ Contents' = Contents
<1>1. UNCHANGED <<use, count, capacity, modified, entries, built, freed>>
  BY DEF NextEntry
<1>2. Contents' = Contents BY <1>1 DEF Contents
<1>3. Placed' /\ KeysUnique' /\ CountIsRight'
  BY <1>1, <1>2 DEF HInv, TableIsRight, Placed, KeysUnique, CountIsRight
<1>4. Running /\ iter # None /\ iter.i # None BY DEF NextEntry
<1>5. /\ iter \in [mc : 0..modified, made : 0..built, pos : Nat,
                   i : Entry \union {None}, returned : SUBSET Entry]
      /\ iter.i \in Entry
  BY <1>4 DEF HInv, TableIsRight, HashMapTypeOK
<1>6. CASE iter.mc # modified
  <2>1. stopped' = TRUE /\ UNCHANGED iter BY <1>6 DEF NextEntry
  <2>2. HashMapTypeOK' BY <1>1, <2>1 DEF HInv, TableIsRight, HashMapTypeOK, Entry
  <2>3. WalkOK' BY <1>1, <2>1 DEF HInv, WalkOK, NoLeaving, Running
  <2> QED BY <1>1, <1>2, <1>3, <2>2, <2>3 DEF HInv, TableIsRight
<1>7. CASE iter.mc = modified
  <2> DEFINE done == iter.returned \union {iter.i}
  <2>1. PICK n \in NextPos(iter.pos, done) :
          iter' = [iter EXCEPT !.pos = n.pos, !.i = n.i, !.returned = done]
    BY <1>7 DEF NextEntry
  <2>2. UNCHANGED stopped BY <1>7 DEF NextEntry
  <2>3. /\ iter'.mc = iter.mc /\ iter'.made = iter.made /\ iter'.pos = n.pos
        /\ iter'.i = n.i /\ iter'.returned = done
        /\ iter' = [mc |-> iter.mc, made |-> iter.made, pos |-> n.pos, i |-> n.i,
                    returned |-> done]
    BY <1>5, <2>1
  <2> HIDE DEF done
  <2>4. n.pos \in Nat /\ n.i \in Entry \union {None}
    BY <1>5, NextPosType
  <2>5. HashMapTypeOK'
    <3>1. done \subseteq Entry BY <1>5 DEF done
    <3> QED BY <1>1, <1>5, <2>2, <2>3, <2>4, <3>1
            DEF HInv, TableIsRight, HashMapTypeOK, Entry
  <2>6. WalkOK'
    <3>1. NoPutSame => Follows'
      <4> SUFFICES ASSUME NoPutSame PROVE Follows'
        OBVIOUS
      <4>1. Follows BY <1>4, <1>7 DEF HInv, WalkOK
      <4>2. /\ iter.pos \in 0..(capacity - 1)
            /\ iter.i \in entries[iter.pos] \ iter.returned
        BY <1>4, <4>1 DEF Follows
      <4>3. done \subseteq Contents BY <4>1, <4>2 DEF Follows, Contents, done
      <4>4. \A h \in 0..(capacity - 1) :
              /\ h < iter.pos => entries[h] \subseteq done
              /\ h > iter.pos => entries[h] \intersect done = {}
        <5>1. \A h \in 0..(capacity - 1) : h # iter.pos => iter.i \notin entries[h]
          BY <4>2 DEF HInv, TableIsRight, Placed
        <5> QED BY <4>1, <5>1, TableNow DEF Follows, done
      <4>5. iter.pos \in -1..(capacity - 1) BY <4>2, TableNow
      <4>6. /\ \A h \in 0..(capacity - 1) :
                 /\ h < n.pos => entries[h] \subseteq done
                 /\ h > n.pos => entries[h] \intersect done = {}
            /\ IF n.i = None THEN done = Contents
               ELSE n.pos \in 0..(capacity - 1) /\ n.i \in entries[n.pos] \ done
        BY <4>3, <4>4, <4>5, NextPosFollows
      <4> QED BY <1>1, <1>2, <2>3, <4>1, <4>3, <4>6 DEF Follows
    <3> QED BY <1>1, <3>1 DEF HInv, WalkOK, NoLeaving, NoPutSame
  <2> QED BY <1>1, <1>2, <1>3, <2>5, <2>6 DEF HInv, TableIsRight
<1> QED BY <1>6, <1>7

(* The iterator deletes what it stands on: nothing, at the end.            *)
LEMMA EndLoopKeeps ==
  ASSUME HInv, EndLoop
  PROVE  HInv' /\ Contents' = Contents
<1>1. /\ UNCHANGED <<use, count, capacity, modified, entries, built, stopped>>
      /\ iter' = None /\ freed' = {iter.i} \intersect Contents
      /\ iter.i # None => ~NoLeaving
  BY DEF EndLoop, NoLeaving
<1>2. Contents' = Contents BY <1>1 DEF Contents
<1>3. Placed' /\ KeysUnique' /\ CountIsRight'
  BY <1>1, <1>2 DEF HInv, TableIsRight, Placed, KeysUnique, CountIsRight
<1>4. HashMapTypeOK' 
  BY <1>1, TableNow DEF HInv, TableIsRight, HashMapTypeOK, Entry
<1>5. NoLeaving => freed' = {}
  BY <1>1, TableNow, HashMapAssumption DEF Entry
<1>6. WalkOK' BY <1>1, <1>5 DEF WalkOK, NoLeaving
<1> QED BY <1>1, <1>2, <1>3, <1>4, <1>6 DEF HInv, TableIsRight

---------------------------------------------------------------------------
(* The invariant.                                                          *)

LEMMA MapStart == MapInit => HInv /\ Contents = {}
<1> SUFFICES ASSUME MapInit PROVE HInv /\ Contents = {}
  OBVIOUS
<1>1. Contents = {} BY DEF MapInit, Contents
<1>2. IsFiniteSet(Contents) /\ Cardinality(Contents) = 0 BY <1>1, FS_EmptySet
<1>3. HashMapTypeOK
  <2>1. 0..(capacity - 1) = {} BY DEF MapInit
  <2>2. entries \in [{} -> SUBSET Entry] BY DEF MapInit
  <2> QED BY <2>1, <2>2 DEF MapInit, HashMapTypeOK
<1>4. Placed BY DEF MapInit, Placed
<1>5. KeysUnique /\ CountIsRight BY <1>1, <1>2 DEF MapInit, KeysUnique, CountIsRight
<1>6. WalkOK BY DEF MapInit, WalkOK
<1> QED BY <1>1, <1>2, <1>3, <1>4, <1>5, <1>6 DEF HInv, TableIsRight

LEMMA MapStutters ==
  ASSUME HInv, UNCHANGED mapVars
  PROVE  HInv' /\ Contents' = Contents
<1>1. Contents' = Contents BY DEF mapVars, Contents
<1>2. HashMapTypeOK' BY DEF mapVars, HInv, TableIsRight, HashMapTypeOK
<1>3. Placed' /\ KeysUnique' /\ CountIsRight'
  BY <1>1 DEF mapVars, HInv, TableIsRight, Placed, KeysUnique, CountIsRight
<1>4. WalkOK'
  BY <1>1 DEF mapVars, HInv, WalkOK, Follows, NoPutSame, NoLeaving, Running
<1> QED BY <1>1, <1>2, <1>3, <1>4 DEF HInv, TableIsRight

LEMMA MapStep == HInv /\ [MapNext]_mapVars => HInv'
<1> SUFFICES ASSUME HInv, [MapNext]_mapVars PROVE HInv'
  OBVIOUS
<1>1. ASSUME NEW k \in use.keys, NEW v \in use.vals, PutNew(k, v) \/ PutOver(k, v)
      PROVE  HInv'
  BY <1>1, PutNewKeeps, PutOverKeeps
<1>2. ASSUME NEW k \in use.keys, PutSame(k) \/ Remove(k)
      PROVE  HInv'
  BY <1>2, PutSameKeeps, RemoveKeeps
<1>3. CASE Clear BY <1>3, ClearKeeps
<1>4. CASE Iterate BY <1>4, IterateKeeps
<1>5. CASE NextEntry BY <1>5, NextEntryKeeps
<1>6. CASE EndLoop BY <1>6, EndLoopKeeps
<1>7. CASE Done \/ UNCHANGED mapVars BY <1>7, MapStutters DEF Done
<1> QED BY <1>1, <1>2, <1>3, <1>4, <1>5, <1>6, <1>7 DEF MapNext

THEOREM MapInv == MapSpec => []HInv
<1>1. MapInit => HInv BY MapStart
<1> QED BY <1>1, MapStep, PTL DEF MapSpec

(* Every entry is found where its hash points to, once, and is counted,    *)
(* through every growing and shrinking of the table.                       *)
THEOREM TableStaysRight == MapSpec => []TableIsRight
<1>1. HInv => TableIsRight BY DEF HInv
<1> QED BY <1>1, MapInv, PTL

(* An iterator whose check passes stands on an entry of the map that it    *)
(* has not returned, unless a loop puts a value that is there already; and *)
(* no entry is deleted that the map holds, unless a loop is left early.    *)
THEOREM IteratorsFailFast == MapSpec => []FailFast
<1>1. HInv => FailFast
  <2> SUFFICES ASSUME HInv PROVE FailFast
    OBVIOUS
  <2>1. ASSUME NoPutSame, iter # None, iter.i # None, iter.mc = modified, Running
        PROVE  iter.made = built /\ iter.i \in Contents \ iter.returned
    <3>1. Follows BY <2>1 DEF HInv, WalkOK
    <3> QED BY <2>1, <3>1 DEF Follows, Contents
  <2> QED BY <2>1 DEF FailFast, HInv, WalkOK
<1> QED BY <1>1, MapInv, PTL

(* A walk that ends has returned all the map holds.                        *)
THEOREM WalksReturnAll == MapSpec => WalkReturnsAll
<1>1. HInv /\ HInv' /\ [MapNext]_mapVars =>
        [NoPutSame /\ iter # None /\ iter.i # None /\ iter' # None /\ iter'.i = None
           => iter'.returned = Contents]_mapVars
  <2> SUFFICES ASSUME HInv, HInv', MapNext,
                      NoPutSame, iter # None, iter.i # None,
                      iter' # None, iter'.i = None
               PROVE  iter'.returned = Contents
    OBVIOUS
  <2>1. iter' # iter OBVIOUS
  <2>2. NextEntry
    BY <2>1 DEF MapNext, PutNew, PutOver, PutSame, Remove, Clear, Iterate, EndLoop,
                Done, mapVars
  <2>3. iter.mc = modified /\ UNCHANGED <<use, modified, freed, stopped>> /\ Running
        /\ iter'.mc = iter.mc
    BY <2>1, <2>2 DEF NextEntry, HInv, TableIsRight, HashMapTypeOK
  <2>4. Follows' BY <2>3 DEF HInv, WalkOK, NoPutSame, Running
  <2>5. Contents' = Contents BY <2>2, NextEntryKeeps
  <2> QED BY <2>4, <2>5 DEF Follows
<1> QED BY <1>1, MapInv, PTL DEF MapSpec, WalkReturnsAll

---------------------------------------------------------------------------
(* The refinement.                                                         *)

(* What a step does to the function from keys to values.                   *)
LEMMA StepRefines ==
  ASSUME HInv, MapNext
  PROVE  [Map!Next]_(AsMap(Contents))
<1> DEFINE map == AsMap(Contents)
<1>0. use.keys \subseteq Keys /\ use.vals \subseteq Vals BY TableNow
<1>1. ASSUME NEW k \in use.keys, NEW v \in use.vals, PutNew(k, v) \/ PutOver(k, v)
      PROVE  Map!Put(k, v)
  <2>1. Contents' = With(Contents, k, v)
    BY <1>1, PutNewKeeps, PutOverKeeps
  <2>2. AsMap(Contents') = PutAt(map, k, v)
    BY <1>0, <2>1, TableNow, AsMapPut
  <2> QED BY <2>2 DEF AsMap, PutAt, Map!Put
<1>2. ASSUME NEW k \in use.keys, Remove(k)
      PROVE  Map!Remove(k)
  <2>1. Contents' = Without(Contents, k) /\ OfKey(Contents, k) # {}
    BY <1>2, RemoveKeeps
  <2>2. k \in DOMAIN map /\ AsMap(Contents') = DropAt(map, k)
    BY <1>0, <2>1, TableNow, AsMapRemove
  <2> QED BY <2>2 DEF AsMap, DropAt, Map!Remove
<1>3. CASE Clear
  <2>1. Contents' = {} BY <1>3, ClearKeeps
  <2> QED BY <2>1 DEF AsMap, Map!Next, Map!Clear
<1>4. ASSUME Contents' = Contents PROVE UNCHANGED map
  BY <1>4 DEF AsMap
<1>5. ASSUME NEW k \in use.keys, PutSame(k) PROVE UNCHANGED map
  BY <1>4, <1>5, PutSameKeeps
<1>6. CASE Iterate \/ NextEntry \/ EndLoop
  BY <1>4, <1>6, IterateKeeps, NextEntryKeeps, EndLoopKeeps
<1>7. CASE Done BY <1>4, <1>7, MapStutters DEF Done
<1> HIDE DEF map
<1> QED
  BY <1>1, <1>2, <1>3, <1>5, <1>6, <1>7, <1>0 DEF MapNext, Map!Next, map

(* HashMap implements AssocMap: to its user it is a function that put()    *)
(* and remove() change at one key, whatever the table does.                *)
THEOREM HashMapIsMap == MapSpec => IsMap
<1>1. MapInit => Map!Init
  <2> SUFFICES ASSUME MapInit PROVE Map!Init
    OBVIOUS
  <2>1. Contents = {} BY MapStart
  <2> QED BY <2>1 DEF Map!Init
<1>2. HInv /\ [MapNext]_mapVars => [Map!Next]_(AsMap(Contents))
  <2> SUFFICES ASSUME HInv, [MapNext]_mapVars PROVE [Map!Next]_(AsMap(Contents))
    OBVIOUS
  <2>1. CASE MapNext BY <2>1, StepRefines
  <2>2. CASE UNCHANGED mapVars BY <2>2, MapStutters DEF AsMap
  <2> QED BY <2>1, <2>2
<1> QED BY <1>1, <1>2, MapInv, PTL DEF MapSpec, IsMap, Map!Spec, AsMap

-----------------------------------------------------------------------------
(* JobList.                                                                *)

(* Where a thread can be, where it is inside the critical section, and     *)
(* where it has no job in its hands.                                       *)
Inside == {"first", "head", "next", "prev", "forth", "back", "leave",
           "take", "single", "unlink1", "unlink2", "unlock"}
Outside == {"idle", "enter", "remove", "run"}
Places(t) ==
  IF t = Worker
  THEN {"idle", "remove", "take", "single", "unlink1", "unlink2", "unlock", "run"}
  ELSE {"idle", "enter", "first", "head", "next", "prev", "forth", "back", "leave"}
EmptyHanded(t) == IF t = Worker THEN {"idle", "remove", "take"} ELSE {"idle"}

Pointers == /\ head \in Jobs \cup {NoJob}
            /\ next \in [Jobs -> Jobs \cup {NoJob}]
            /\ prev \in [Jobs -> Jobs \cup {NoJob}]
JobTypes ==
  /\ Pointers
  /\ lock \in Threads \cup {NoJob}
  /\ pc \in [Threads -> Inside \cup Outside] /\ \A t \in Threads : pc[t] \in Places(t)
  /\ e \in [Threads -> Jobs \cup {NoJob}]

(* Inside the critical section is one thread at most, and a job that is    *)
(* being added or removed is in the hands of one thread.                   *)
OwnersOK ==
  /\ \A t \in Threads : pc[t] \in Inside => lock = t
  /\ \A t \in Threads : e[t] = NoJob <=> pc[t] \in EmptyHanded(t)
  /\ \A t, u \in Threads : e[t] = e[u] => t = u \/ e[t] = NoJob

(* The jobs of the list are those of q, linked both ways, but for the two  *)
(* pointers that a thread in the critical section has yet to set: the      *)
(* next of the last and the prev of the first.                             *)
Unlinking == pc[Worker] \in {"unlink1", "unlink2"}
Half == \E t \in Adders : pc[t] = "back"
Linked(q) ==
  /\ q \in Seq(Jobs) /\ IsInjective(q)
  /\ q = <<>> <=> head = NoJob
  /\ \A i \in 1..(Len(q) - 1) : next[q[i]] = q[i + 1] /\ prev[q[i + 1]] = q[i]
  /\ q # <<>> =>
       /\ q[1] = head
       /\ next[q[Len(q)]] = IF pc[Worker] = "unlink1" THEN e[Worker] ELSE head
       /\ Unlinking => prev[head] = e[Worker]
       /\ ~Unlinking /\ ~Half => prev[head] = q[Len(q)]

(* What an adding thread knows of the list: that its job is not in it, or  *)
(* at its end.                                                             *)
AdderKnows(t, q) ==
  /\ pc[t] \in {"enter", "first", "head", "next", "prev", "forth"} =>
       \A i \in DOMAIN q : q[i] # e[t]
  /\ pc[t] \in {"first", "head"} => q = <<>>
  /\ pc[t] = "head" => next[e[t]] = e[t] /\ prev[e[t]] = e[t]
  /\ pc[t] \in {"next", "prev", "forth"} => q # <<>>
  /\ pc[t] \in {"prev", "forth"} => next[e[t]] = head
  /\ pc[t] = "forth" => prev[e[t]] = q[Len(q)]
  /\ pc[t] = "back" => Len(q) >= 2 /\ e[t] = q[Len(q)]

(* What the worker knows: there is a job when it says so, and the job that *)
(* it takes is the first, the only one or in the list no longer.           *)
WorkerKnows(q) ==
  /\ pc[Worker] \in {"remove", "take"} => q # <<>>
  /\ pc[Worker] = "single" => Len(q) = 1 /\ e[Worker] = head
  /\ pc[Worker] \in {"unlink1", "unlink2", "unlock", "run"} =>
       \A i \in DOMAIN q : q[i] # e[Worker]
  /\ Unlinking =>
       IF q = <<>> THEN next[e[Worker]] = e[Worker] /\ prev[e[Worker]] = e[Worker]
       ELSE next[e[Worker]] = head /\ prev[e[Worker]] = q[Len(q)]

Holds(q) == Linked(q) /\ WorkerKnows(q) /\ \A t \in Adders : AdderKnows(t, q)
JobState(q) == JobTypes /\ OwnersOK /\ Holds(q)
JobInv == \E q \in Seq(Jobs) : JobState(q)

-----------------------------------------------------------------------------
(* A set of numbers has a least one.                                       *)
LEMMA LeastOf ==
  ASSUME NEW T \in SUBSET Nat, T # {}
  PROVE  \E m \in T : \A n \in T : m <= n
<1> DEFINE R == {p \in Nat \X Nat : p[1] < p[2]}
<1>1. IsWellFoundedOn(R, Nat)
  BY NatLessThanWellFounded DEF OpToRel
<1>2. \A x, y \in Nat : x < y => <<x, y>> \in R
  OBVIOUS
<1> HIDE DEF R
<1>3. PICK m \in T : \A n \in T : <<n, m>> \notin R
  BY <1>1, WFMin
<1>4. ASSUME NEW n \in T PROVE m <= n
  <2>1. ~(n < m)
    BY <1>2, <1>3
  <2> QED
    BY <2>1
<1> QED
  BY <1>4

LEMMA TailIs ==
  ASSUME NEW q \in Seq(Jobs), q # <<>>
  PROVE  /\ Tail(q) \in Seq(Jobs) /\ Len(Tail(q)) = Len(q) - 1 /\ Len(q) \in Nat \ {0}
         /\ \A i \in 1..Len(Tail(q)) : Tail(q)[i] = q[i + 1] /\ i + 1 \in DOMAIN q
<1>1. /\ Tail(q) \in Seq(Jobs) /\ Len(Tail(q)) = Len(q) - 1 /\ Len(q) \in Nat \ {0}
      /\ DOMAIN q = 1..Len(q)
  OBVIOUS
<1>2. ASSUME NEW i \in 1..Len(Tail(q))
      PROVE  Tail(q)[i] = q[i + 1] /\ i + 1 \in 1..Len(q)
  BY <1>1
<1> QED
  BY <1>1, <1>2

LEMMA CardinalityUpTo ==
  ASSUME NEW n \in Nat
  PROVE  Cardinality(1..n) = n
BY FS_Interval

(* The pointers lead one way: there is only one chain from head on.        *)
LEMMA OneChain ==
  ASSUME NEW q \in Seq(Jobs), NEW r \in Seq(Jobs), Chain(q), Chain(r)
  PROVE  q = r
<1> DEFINE Both == {i \in Nat : i \in 1..Len(q) /\ i \in 1..Len(r)}
           Apart == {i \in Both : q[i] # r[i]}
<1>1. Apart = {}
  <2> SUFFICES ASSUME Apart # {} PROVE FALSE
    OBVIOUS
  <2>1. PICK m \in Apart : \A n \in Apart : m <= n
    BY LeastOf
  <2>2. q # <<>> /\ r # <<>> /\ m > 1
    BY <2>1 DEF Chain
  <2>3. m - 1 \in Both /\ m - 1 \notin Apart
    BY <2>1, <2>2
  <2>4. q[m - 1] = r[m - 1] /\ m - 1 \in 1..(Len(q) - 1) /\ m - 1 \in 1..(Len(r) - 1)
    BY <2>1, <2>3
  <2>5. q[(m - 1) + 1] = next[q[m - 1]] /\ r[(m - 1) + 1] = next[r[m - 1]]
    BY <2>4 DEF Chain
  <2> QED
    BY <2>1, <2>4, <2>5
<1>2. ~ (Len(q) < Len(r))
  <2> SUFFICES ASSUME Len(q) < Len(r) PROVE FALSE
    OBVIOUS
  <2>1. q # <<>>
    BY DEF Chain
  <2>2. next[q[Len(q)]] \in {head, Leaving} /\ Len(q) \in 1..(Len(r) - 1) /\ Len(q) \in Both
    BY <2>1 DEF Chain
  <2>3. q[Len(q)] = r[Len(q)]
    BY <1>1, <2>2
  <2> QED
    BY <2>2, <2>3 DEF Chain
<1>3. ~ (Len(r) < Len(q))
  <2> SUFFICES ASSUME Len(r) < Len(q) PROVE FALSE
    OBVIOUS
  <2>1. r # <<>>
    BY DEF Chain
  <2>2. next[r[Len(r)]] \in {head, Leaving} /\ Len(r) \in 1..(Len(q) - 1) /\ Len(r) \in Both
    BY <2>1 DEF Chain
  <2>3. q[Len(r)] = r[Len(r)]
    BY <1>1, <2>2
  <2> QED
    BY <2>2, <2>3 DEF Chain
<1>4. Len(q) = Len(r) /\ \A i \in 1..Len(q) : q[i] = r[i]
  BY <1>1, <1>2, <1>3
<1> QED
  BY <1>4

(* What is linked is the list.                                             *)
LEMMA ListIs ==
  ASSUME JobListAssumption, NEW q \in Seq(Jobs), JobState(q)
  PROVE  List = q
<1>1. Worker \in Threads /\ NoJob \notin Jobs /\ JobTypes /\ OwnersOK /\ Holds(q)
  BY DEF JobListAssumption, Threads, JobState
<1>2. Chain(q)
  <2>1. q # <<>> => q[1] = head /\ next[q[Len(q)]] \in {head, Leaving}
    BY <1>1 DEF Holds, Linked, Leaving
  <2>2. ASSUME NEW i \in 1..(Len(q) - 1)
        PROVE  next[q[i]] = q[i + 1] /\ q[i + 1] \notin {head, Leaving}
    <3>1. next[q[i]] = q[i + 1] /\ q[i + 1] # q[1] /\ q # <<>> /\ i + 1 \in DOMAIN q
      BY <1>1 DEF Holds, Linked, IsInjective
    <3>2. q[i + 1] # Leaving
      BY <1>1, <3>1 DEF Leaving, Holds, WorkerKnows
    <3> QED
      BY <2>1, <3>1, <3>2
  <2> QED
    BY <1>1, <2>1, <2>2 DEF Chain, Holds, Linked
<1>3. q \in Chains
  <2>1. Len(q) \in Nat /\ q \in Injection(1..Len(q), Jobs) /\ IsFiniteSet(Jobs)
    BY <1>1 DEF Injection, Holds, Linked, IsInjective, JobListAssumption
  <2>2. Cardinality(1..Len(q)) <= Cardinality(Jobs)
    BY <2>1, FS_Injection
  <2>3. Cardinality(1..Len(q)) = Len(q)
    BY <2>1, CardinalityUpTo
  <2>4. Cardinality(Jobs) \in Nat
    BY <2>1, FS_CardinalityType
  <2> QED
    BY <2>1, <2>2, <2>3, <2>4 DEF Chains, Injection
<1>4. \A r \in Chains : r \in Seq(Jobs)
  BY DEF Chains, JobListAssumption
<1> QED
  BY <1>2, <1>3, <1>4, OneChain DEF List
LEMMA ListIsThen ==
  ASSUME JobListAssumption
  PROVE  \A q \in Seq(Jobs) : JobState(q)' => List' = q
<1>1. \A q \in Seq(Jobs) : JobState(q) => List = q
  BY ListIs
<1>2. (\A q \in Seq(Jobs) : JobState(q) => List = q)'
  BY <1>1, PTL
<1> QED
  BY <1>2

-----------------------------------------------------------------------------
(* The steps of addJob().                                                  *)
LEMMA JobNames ==
  ASSUME JobListAssumption
  PROVE  /\ NoJob \notin Jobs /\ NoJob \notin Threads /\ Worker \notin Adders
         /\ Worker \in Threads /\ Adders \subseteq Threads
         /\ \A t \in Threads : t = Worker \/ t \in Adders
BY DEF JobListAssumption, Threads

(* A step takes one thread from one place to another, with its job and     *)
(* with the lock, if nobody else has it.                                   *)
Moves(t, l) ==
  /\ pc' = [pc EXCEPT ![t] = l] /\ l \in Places(t)
  /\ Pointers'
  /\ e' \in [Threads -> Jobs \cup {NoJob}]
  /\ \A u \in Threads : u # t => e'[u] = e[u] /\ (e'[t] = e[u] => e'[t] = NoJob)
  /\ e'[t] = NoJob <=> l \in EmptyHanded(t)
  /\ lock' = lock \/ (lock' \in {t, NoJob} /\ lock \in {t, NoJob})
  /\ l \in Inside => lock' = t

LEMMA MovesKeeps ==
  ASSUME JobListAssumption, NEW q, JobState(q), NEW t \in Threads, NEW l, Moves(t, l)
  PROVE  /\ JobTypes' /\ OwnersOK' /\ pc'[t] = l
         /\ \A u \in Threads : u # t => pc'[u] = pc[u] /\ e'[u] = e[u]
<1>1. JobTypes /\ OwnersOK
  BY DEF JobState
<1>2. pc'[t] = l /\ \A u \in Threads : u # t => pc'[u] = pc[u] /\ e'[u] = e[u]
  BY <1>1 DEF JobTypes, Moves
<1>3. JobTypes'
  <2>1. l \in Inside \cup Outside
    BY DEF Moves, Places, Inside, Outside
  <2>2. pc' \in [Threads -> Inside \cup Outside]
    BY <1>1, <2>1 DEF JobTypes, Moves
  <2>3. \A u \in Threads : pc'[u] \in Places(u)
    BY <1>1, <1>2 DEF JobTypes, Moves
  <2>4. lock' \in Threads \cup {NoJob}
    BY <1>1 DEF JobTypes, Moves
  <2> QED
    BY <2>2, <2>3, <2>4 DEF JobTypes, Moves
<1>4. OwnersOK'
  <2>1. ASSUME NEW u \in Threads, pc'[u] \in Inside PROVE lock' = u
    BY <1>1, <1>2, <2>1, JobNames DEF OwnersOK, Moves
  <2>2. ASSUME NEW u \in Threads PROVE e'[u] = NoJob <=> pc'[u] \in EmptyHanded(u)
    BY <1>1, <1>2 DEF OwnersOK, Moves
  <2>3. ASSUME NEW u \in Threads, NEW v \in Threads, e'[u] = e'[v]
        PROVE  u = v \/ e'[u] = NoJob
    BY <1>1, <1>2, <2>3 DEF OwnersOK, Moves
  <2> QED
    BY <2>1, <2>2, <2>3 DEF OwnersOK
<1> QED
  BY <1>2, <1>3, <1>4

LEMMA NewJobKeeps ==
  ASSUME JobListAssumption, NEW q \in Seq(Jobs), JobState(q),
         NEW t \in Adders, NEW j \in Jobs, NewJob(t, j)
  PROVE  JobState(q)'
<1>1. /\ pc[t] = "idle" /\ \A u \in Threads : e[u] # j
      /\ \A i \in DOMAIN q : q[i] # j
      /\ pc' = [pc EXCEPT ![t] = "enter"] /\ e' = [e EXCEPT ![t] = j]
      /\ next' = [next EXCEPT ![j] = NoJob] /\ prev' = [prev EXCEPT ![j] = NoJob]
      /\ UNCHANGED <<head, lock>>
  BY ListIs DEF NewJob, Goto
<1>2. JobTypes /\ OwnersOK /\ Holds(q)
  BY DEF JobState
<1>3. /\ JobTypes' /\ OwnersOK' /\ pc'[t] = "enter"
      /\ \A u \in Threads : u # t => pc'[u] = pc[u] /\ e'[u] = e[u]
  <2>1. Moves(t, "enter")
    BY <1>1, <1>2, JobNames DEF Moves, JobTypes, Pointers, Places, Inside, EmptyHanded
  <2> QED
    BY <2>1, JobNames, MovesKeeps
<1>4. Linked(q)'
  <2>1. \A i \in DOMAIN q : next'[q[i]] = next[q[i]] /\ prev'[q[i]] = prev[q[i]]
    BY <1>1 DEF JobState, JobTypes
  <2>2. pc'[Worker] = pc[Worker] /\ e'[Worker] = e[Worker] /\ Unlinking' = Unlinking
    BY <1>1, JobNames DEF JobState, JobTypes, Unlinking
  <2>3. Half' = Half
    BY <1>1, JobNames DEF JobState, JobTypes, Half
  <2> QED
    BY <1>1, <2>1, <2>2, <2>3 DEF JobState, Holds, Linked
<1>5. WorkerKnows(q)'
  BY <1>1, JobNames DEF JobState, JobTypes, OwnersOK, Holds, WorkerKnows, Unlinking
<1>6. ASSUME NEW u \in Adders PROVE AdderKnows(u, q)'
  BY <1>1, JobNames DEF JobState, JobTypes, OwnersOK, Holds, AdderKnows
<1> QED
  BY <1>2, <1>3, <1>4, <1>5, <1>6 DEF JobState, Holds

(* While a thread is in the critical section the others are outside.       *)
LEMMA Alone ==
  ASSUME JobListAssumption, NEW q, JobState(q), NEW t \in Threads, pc[t] \in Inside
  PROVE  lock = t /\ \A u \in Threads : u # t => pc[u] \notin Inside
BY JobNames DEF JobState, OwnersOK

LEMMA EnterAddKeeps ==
  ASSUME JobListAssumption, NEW q \in Seq(Jobs), JobState(q), NEW t \in Adders, EnterAdd(t)
  PROVE  JobState(q)'
<1> DEFINE l == IF head = NoJob THEN "first" ELSE "next"
<1>1. /\ pc[t] = "enter" /\ lock = NoJob /\ lock' = t /\ pc' = [pc EXCEPT ![t] = l]
      /\ UNCHANGED <<head, next, prev, e>>
  BY DEF EnterAdd, Goto
<1>2. JobTypes /\ OwnersOK /\ Holds(q) /\ t \in Threads /\ t # Worker
  BY JobNames DEF JobState
<1>3. /\ JobTypes' /\ OwnersOK' /\ pc'[t] = l
      /\ \A u \in Threads : u # t => pc'[u] = pc[u] /\ e'[u] = e[u]
  <2>1. Moves(t, l)
    BY <1>1, <1>2, JobNames
       DEF Moves, JobTypes, OwnersOK, Pointers, Places, Inside, EmptyHanded
  <2> QED
    BY <1>2, <2>1, MovesKeeps
<1>4. Unlinking' = Unlinking /\ Half' = Half /\ pc'[Worker] = pc[Worker]
  BY <1>1, <1>2, <1>3, JobNames DEF Unlinking, Half
<1>5. Linked(q)'
  BY <1>1, <1>2, <1>4 DEF Holds, Linked
<1>6. WorkerKnows(q)'
  BY <1>1, <1>2, <1>4 DEF Holds, WorkerKnows
<1>7. ASSUME NEW u \in Adders PROVE AdderKnows(u, q)'
  <2>1. CASE u = t
    BY <1>1, <1>2, <1>3, <2>1 DEF Holds, Linked, AdderKnows
  <2>2. CASE u # t
    BY <1>1, <1>2, <1>3, <2>2, JobNames DEF Holds, AdderKnows
  <2> QED
    BY <2>1, <2>2
<1> QED
  BY <1>3, <1>5, <1>6, <1>7 DEF JobState, Holds

(* head = e->next = e->prev = e.                                           *)
LEMMA FirstKeeps ==
  ASSUME JobListAssumption, NEW q \in Seq(Jobs), JobState(q), NEW t \in Adders, First(t)
  PROVE  \/ JobState(q)'
         \/ e[t] \in Jobs /\ q = <<>> /\ \E r \in Seq(Jobs) : r = <<e[t]>> /\ JobState(r)'
<1>1. JobTypes /\ OwnersOK /\ Holds(q) /\ t \in Threads /\ t # Worker
  BY JobNames DEF JobState
<1>2. /\ pc[t] \in {"first", "head"} /\ q = <<>> /\ head = NoJob /\ e[t] \in Jobs
      /\ lock = t /\ \A u \in Threads : u # t => pc[u] \notin Inside
  <2>1. pc[t] \in {"first", "head"}
    BY DEF First
  <2>2. lock = t /\ \A u \in Threads : u # t => pc[u] \notin Inside
    BY <1>1, <2>1, Alone DEF Inside
  <2>3. q = <<>> /\ head = NoJob
    BY <1>1, <2>1 DEF Holds, Linked, AdderKnows
  <2>4. e[t] \in Jobs
    BY <1>1, <2>1, JobNames DEF JobTypes, OwnersOK, EmptyHanded
  <2> QED
    BY <2>1, <2>2, <2>3, <2>4
<1>3. CASE pc[t] = "first"
  <2>1. /\ prev' = [prev EXCEPT ![e[t]] = e[t]] /\ next' = [next EXCEPT ![e[t]] = e[t]]
        /\ pc' = [pc EXCEPT ![t] = "head"] /\ UNCHANGED <<head, lock, e>>
    BY <1>3 DEF First, Goto
  <2>2. /\ JobTypes' /\ OwnersOK' /\ pc'[t] = "head"
        /\ \A u \in Threads : u # t => pc'[u] = pc[u] /\ e'[u] = e[u]
    <3>1. Moves(t, "head")
      BY <1>1, <1>2, <1>3, <2>1, JobNames
         DEF Moves, JobTypes, OwnersOK, Pointers, Places, Inside, EmptyHanded
    <3> QED
      BY <1>1, <3>1, MovesKeeps
  <2>3. pc'[Worker] = pc[Worker] /\ e'[Worker] = e[Worker] /\ pc[Worker] \notin Inside
    BY <1>1, <1>2, <2>2, JobNames
  <2>4. Linked(q)'
    BY <1>1, <1>2, <2>1 DEF Holds, Linked
  <2>5. WorkerKnows(q)'
    BY <1>1, <1>2, <2>3 DEF Holds, WorkerKnows, Unlinking, Inside
  <2>6. ASSUME NEW u \in Adders PROVE AdderKnows(u, q)'
    <3>1. CASE u = t
      BY <1>1, <1>2, <2>1, <2>2, <3>1 DEF AdderKnows, JobTypes, Pointers
    <3>2. CASE u # t
      <4>1. pc'[u] = pc[u] /\ e'[u] = e[u] /\ pc[u] \notin Inside
        BY <1>2, <2>2, <3>2, JobNames
      <4> QED
        BY <1>1, <1>2, <4>1 DEF Holds, AdderKnows, Inside
    <3> QED
      BY <3>1, <3>2
  <2> QED
    BY <2>2, <2>4, <2>5, <2>6 DEF JobState, Holds
<1>4. CASE pc[t] = "head"
  <2>0. PICK r : r = <<e[t]>>
    OBVIOUS
  <2>1. /\ head' = e[t] /\ pc' = [pc EXCEPT ![t] = "leave"]
        /\ UNCHANGED <<next, prev, lock, e>>
    BY <1>4 DEF First, Goto
  <2>2. /\ JobTypes' /\ OwnersOK' /\ pc'[t] = "leave"
        /\ \A u \in Threads : u # t => pc'[u] = pc[u] /\ e'[u] = e[u]
    <3>1. Moves(t, "leave")
      BY <1>1, <1>2, <1>4, <2>1, JobNames
         DEF Moves, JobTypes, OwnersOK, Pointers, Places, Inside, EmptyHanded
    <3> QED
      BY <1>1, <3>1, MovesKeeps
  <2>3. /\ pc'[Worker] = pc[Worker] /\ e'[Worker] = e[Worker] /\ pc[Worker] \notin Inside
        /\ e[Worker] # e[t]
    BY <1>1, <1>2, <2>2, JobNames DEF OwnersOK
  <2>4. /\ r \in Seq(Jobs) /\ Len(r) = 1 /\ r[1] = e[t] /\ r # <<>>
        /\ \A i \in DOMAIN r : i = 1
    BY <1>2, <2>0
  <2>5. next[e[t]] = e[t] /\ prev[e[t]] = e[t]
    BY <1>1, <1>4 DEF Holds, AdderKnows
  <2>6. Linked(r)'
    BY <1>2, <2>1, <2>3, <2>4, <2>5, JobNames DEF Linked, IsInjective, Unlinking, Inside
  <2>7. WorkerKnows(r)'
    BY <1>1, <1>2, <2>1, <2>3, <2>4 DEF Holds, WorkerKnows, Unlinking, Inside
  <2>8. ASSUME NEW u \in Adders PROVE AdderKnows(u, r)'
    <3>1. CASE u = t
      BY <2>2, <3>1 DEF AdderKnows
    <3>2. CASE u # t
      <4>1. /\ pc'[u] = pc[u] /\ e'[u] = e[u] /\ pc[u] \notin Inside
            /\ e[u] # e[t]
        BY <1>1, <1>2, <2>2, <3>2, JobNames DEF OwnersOK
      <4> QED
        BY <2>4, <4>1 DEF AdderKnows, Inside
    <3> QED
      BY <3>1, <3>2
  <2>9. JobState(r)'
    BY <2>2, <2>6, <2>7, <2>8 DEF JobState, Holds
  <2> QED
    BY <1>2, <2>0, <2>4, <2>9
<1> QED
  BY <1>2, <1>3, <1>4

(* The four assignments that put a job before the head and behind the      *)
(* last; with the third of them it is in the list.                         *)
LEMMA LinkKeeps ==
  ASSUME JobListAssumption, NEW q \in Seq(Jobs), JobState(q), NEW t \in Adders, Link(t)
  PROVE  \/ JobState(q)'
         \/ /\ e[t] \in Jobs /\ \A i \in DOMAIN q : q[i] # e[t]
            /\ \E r \in Seq(Jobs) : r = Append(q, e[t]) /\ JobState(r)'
<1>1. JobTypes /\ OwnersOK /\ Holds(q) /\ t \in Threads /\ t # Worker
  BY JobNames DEF JobState
<1>2. /\ pc[t] \in {"next", "prev", "forth", "back"}
      /\ lock = t /\ \A u \in Threads : u # t => pc[u] \notin Inside
  <2>1. pc[t] \in {"next", "prev", "forth", "back"}
    BY DEF Link
  <2> QED
    BY <1>1, <2>1, Alone DEF Inside
<1>3. e[t] \in Jobs /\ pc[Worker] \notin Inside /\ \A u \in Threads : u # t => e[u] # e[t]
  BY <1>1, <1>2, JobNames DEF JobTypes, OwnersOK, EmptyHanded
<1>4. q # <<>> /\ q[1] = head /\ head \in Jobs /\ q[Len(q)] \in Jobs /\ next[q[Len(q)]] = head
  <2>1. q # <<>>
    BY <1>1, <1>2 DEF Holds, AdderKnows
  <2>2. q[1] = head /\ head # NoJob /\ next[q[Len(q)]] = head
    BY <1>1, <1>3, <2>1 DEF Holds, Linked, Inside
  <2> QED
    BY <1>1, <2>1, <2>2 DEF JobTypes, Pointers
<1>5. ~Unlinking /\ (pc[t] # "back" => ~Half)
  BY <1>1, <1>2, <1>3, JobNames DEF Unlinking, Half, Inside
<1>6. CASE pc[t] = "next"
  <2>1. /\ next' = [next EXCEPT ![e[t]] = head]
        /\ pc' = [pc EXCEPT ![t] = "prev"] /\ UNCHANGED <<head, prev, lock, e>>
    BY <1>6 DEF Link, Goto
  <2>2. /\ JobTypes' /\ OwnersOK' /\ pc'[t] = "prev"
        /\ \A u \in Threads : u # t => pc'[u] = pc[u] /\ e'[u] = e[u]
    <3>1. Moves(t, "prev")
      BY <1>1, <1>2, <1>3, <1>4, <1>6, <2>1, JobNames
         DEF Moves, JobTypes, OwnersOK, Pointers, Places, Inside, EmptyHanded
    <3> QED
      BY <1>1, <3>1, MovesKeeps
  <2>3. pc'[Worker] = pc[Worker] /\ e'[Worker] = e[Worker] /\ ~Unlinking' /\ ~Half'
    BY <1>1, <1>2, <1>3, <1>5, <1>6, <2>2, JobNames DEF Unlinking, Half, Inside
  <2>4. \A i \in DOMAIN q : q[i] # e[t] /\ next'[q[i]] = next[q[i]]
    BY <1>1, <1>6, <2>1 DEF Holds, AdderKnows, JobTypes, Pointers
  <2>5. Linked(q)'
    BY <1>1, <1>3, <1>4, <1>5, <1>6, <2>1, <2>3, <2>4 DEF Holds, Linked, Inside
  <2>6. WorkerKnows(q)'
    BY <1>1, <1>3, <2>1, <2>3 DEF Holds, WorkerKnows
  <2>7. ASSUME NEW u \in Adders PROVE AdderKnows(u, q)'
    <3>1. CASE u = t
      BY <1>1, <1>3, <1>4, <2>1, <2>2, <2>4, <3>1 DEF AdderKnows, JobTypes, Pointers
    <3>2. CASE u # t
      <4>1. pc'[u] = pc[u] /\ e'[u] = e[u] /\ pc[u] \notin Inside
        BY <1>2, <2>2, <3>2, JobNames
      <4> QED
        BY <1>1, <4>1 DEF Holds, AdderKnows, Inside
    <3> QED
      BY <3>1, <3>2
  <2> QED
    BY <2>2, <2>5, <2>6, <2>7 DEF JobState, Holds
<1>7. CASE pc[t] = "prev"
  <2>1. /\ prev' = [prev EXCEPT ![e[t]] = q[Len(q)]]
        /\ pc' = [pc EXCEPT ![t] = "forth"] /\ UNCHANGED <<head, next, lock, e>>
    <3>1. prev[head] = q[Len(q)]
      BY <1>1, <1>4, <1>5, <1>7 DEF Holds, Linked
    <3> QED
      BY <1>7, <3>1 DEF Link, Goto
  <2>2. /\ JobTypes' /\ OwnersOK' /\ pc'[t] = "forth"
        /\ \A u \in Threads : u # t => pc'[u] = pc[u] /\ e'[u] = e[u]
    <3>1. Moves(t, "forth")
      BY <1>1, <1>2, <1>3, <1>4, <1>7, <2>1, JobNames
         DEF Moves, JobTypes, OwnersOK, Pointers, Places, Inside, EmptyHanded
    <3> QED
      BY <1>1, <3>1, MovesKeeps
  <2>3. pc'[Worker] = pc[Worker] /\ e'[Worker] = e[Worker] /\ ~Unlinking' /\ ~Half'
    BY <1>1, <1>2, <1>3, <1>5, <1>7, <2>2, JobNames DEF Unlinking, Half, Inside
  <2>4. \A i \in DOMAIN q : q[i] # e[t] /\ prev'[q[i]] = prev[q[i]]
    BY <1>1, <1>7, <2>1 DEF Holds, AdderKnows, JobTypes, Pointers
  <2>5. Linked(q)'
    BY <1>1, <1>3, <1>4, <1>5, <1>7, <2>1, <2>3, <2>4 DEF Holds, Linked, Inside
  <2>6. WorkerKnows(q)'
    BY <1>1, <1>3, <2>1, <2>3 DEF Holds, WorkerKnows
  <2>7. ASSUME NEW u \in Adders PROVE AdderKnows(u, q)'
    <3>1. CASE u = t
      <4>1. next[e[t]] = head
        BY <1>1, <1>7 DEF Holds, AdderKnows
      <4> QED
        BY <1>1, <1>3, <1>4, <2>1, <2>2, <2>4, <3>1, <4>1 DEF AdderKnows, JobTypes, Pointers
    <3>2. CASE u # t
      <4>1. pc'[u] = pc[u] /\ e'[u] = e[u] /\ pc[u] \notin Inside
        BY <1>2, <2>2, <3>2, JobNames
      <4> QED
        BY <1>1, <4>1 DEF Holds, AdderKnows, Inside
    <3> QED
      BY <3>1, <3>2
  <2> QED
    BY <2>2, <2>5, <2>6, <2>7 DEF JobState, Holds
<1>8. CASE pc[t] = "forth"
  <2>1. \A i \in DOMAIN q : q[i] # e[t]
    BY <1>1, <1>8 DEF Holds, AdderKnows
  <2>2. next[e[t]] = head /\ prev[e[t]] = q[Len(q)]
    BY <1>1, <1>8 DEF Holds, AdderKnows
  <2>3. /\ next' = [next EXCEPT ![q[Len(q)]] = e[t]]
        /\ pc' = [pc EXCEPT ![t] = "back"] /\ UNCHANGED <<head, prev, lock, e>>
    BY <1>8, <2>2 DEF Link, Goto
  <2>4. /\ JobTypes' /\ OwnersOK' /\ pc'[t] = "back"
        /\ \A u \in Threads : u # t => pc'[u] = pc[u] /\ e'[u] = e[u]
    <3>1. Moves(t, "back")
      BY <1>1, <1>2, <1>3, <1>4, <1>8, <2>3, JobNames
         DEF Moves, JobTypes, OwnersOK, Pointers, Places, Inside, EmptyHanded
    <3> QED
      BY <1>1, <3>1, MovesKeeps
  <2>5. /\ pc'[Worker] = pc[Worker] /\ e'[Worker] = e[Worker] /\ ~Unlinking' /\ Half'
        /\ e[Worker] # e[t]
    BY <1>1, <1>2, <1>3, <1>5, <1>8, <2>4, JobNames DEF Unlinking, Half, Inside
  <2>6. PICK r : r = Append(q, e[t])
    OBVIOUS
  <2>7. /\ r \in Seq(Jobs) /\ Len(r) = Len(q) + 1 /\ r[Len(q) + 1] = e[t] /\ r # <<>>
        /\ \A i \in 1..Len(q) : r[i] = q[i]
        /\ \A i \in DOMAIN r : i \in 1..Len(q) \/ i = Len(q) + 1
        /\ Len(q) \in Nat \ {0} /\ r[1] = head
    BY <1>3, <1>4, <2>6
  <2>8. IsInjective(r)
    BY <1>1, <2>1, <2>7 DEF Holds, Linked, IsInjective
  <2>9. ASSUME NEW i \in 1..(Len(r) - 1)
        PROVE  next'[r[i]] = r[i + 1] /\ prev'[r[i + 1]] = r[i]
    <3>1. CASE i = Len(q)
      BY <1>1, <1>4, <2>2, <2>3, <2>7, <3>1 DEF JobTypes, Pointers
    <3>2. CASE i # Len(q)
      <4>1. i \in 1..(Len(q) - 1) /\ i + 1 \in 1..Len(q) /\ i \in 1..Len(q)
        BY <2>7, <3>2
      <4>2. q[i] # q[Len(q)] /\ next[q[i]] = q[i + 1] /\ prev[q[i + 1]] = q[i]
        BY <1>1, <2>7, <4>1 DEF Holds, Linked, IsInjective
      <4>3. next'[q[i]] = next[q[i]]
        BY <1>1, <1>4, <2>3, <4>1, <4>2 DEF JobTypes, Pointers
      <4> QED
        BY <2>3, <2>7, <4>1, <4>2, <4>3
    <3> QED
      BY <3>1, <3>2
  <2>10. next'[r[Len(r)]] = head
    BY <1>1, <1>3, <1>4, <2>1, <2>2, <2>3, <2>7 DEF JobTypes, Pointers
  <2>11. Linked(r)'
    BY <1>1, <1>3, <1>4, <2>3, <2>5, <2>7, <2>8, <2>9, <2>10, JobNames DEF Linked, Inside
  <2>12. WorkerKnows(r)'
    BY <1>1, <1>3, <2>5, <2>7 DEF Holds, WorkerKnows, Inside
  <2>13. ASSUME NEW u \in Adders PROVE AdderKnows(u, r)'
    <3>1. CASE u = t
      BY <2>3, <2>4, <2>7, <3>1 DEF AdderKnows
    <3>2. CASE u # t
      <4>1. pc'[u] = pc[u] /\ e'[u] = e[u] /\ pc[u] \notin Inside /\ e[u] # e[t]
        BY <1>2, <1>3, <2>4, <3>2, JobNames
      <4> QED
        BY <1>1, <2>7, <4>1 DEF Holds, AdderKnows, Inside
    <3> QED
      BY <3>1, <3>2
  <2>14. JobState(r)'
    BY <2>4, <2>11, <2>12, <2>13 DEF JobState, Holds
  <2> QED
    BY <1>3, <2>1, <2>6, <2>7, <2>14
<1>9. CASE pc[t] = "back"
  <2>1. Len(q) >= 2 /\ e[t] = q[Len(q)]
    BY <1>1, <1>9 DEF Holds, AdderKnows
  <2>2. /\ prev' = [prev EXCEPT ![head] = e[t]]
        /\ pc' = [pc EXCEPT ![t] = "leave"] /\ UNCHANGED <<head, next, lock, e>>
    BY <1>4, <1>9, <2>1 DEF Link, Goto
  <2>3. /\ JobTypes' /\ OwnersOK' /\ pc'[t] = "leave"
        /\ \A u \in Threads : u # t => pc'[u] = pc[u] /\ e'[u] = e[u]
    <3>1. Moves(t, "leave")
      BY <1>1, <1>2, <1>3, <1>4, <1>9, <2>2, JobNames
         DEF Moves, JobTypes, OwnersOK, Pointers, Places, Inside, EmptyHanded
    <3> QED
      BY <1>1, <3>1, MovesKeeps
  <2>4. pc'[Worker] = pc[Worker] /\ e'[Worker] = e[Worker] /\ ~Unlinking' /\ ~Half'
    BY <1>1, <1>2, <1>3, <1>5, <1>9, <2>3, JobNames DEF Unlinking, Half, Inside
  <2>5. ASSUME NEW i \in 1..(Len(q) - 1)
        PROVE  next'[q[i]] = q[i + 1] /\ prev'[q[i + 1]] = q[i]
    <3>1. i + 1 \in DOMAIN q /\ 1 \in DOMAIN q /\ i + 1 # 1
      BY <2>1
    <3>2. q[i + 1] # head /\ next[q[i]] = q[i + 1] /\ prev[q[i + 1]] = q[i]
      BY <1>1, <1>4, <3>1 DEF Holds, Linked, IsInjective
    <3> QED
      BY <1>1, <2>2, <3>1, <3>2 DEF JobTypes, Pointers
  <2>6. prev'[head] = q[Len(q)]
    BY <1>1, <1>4, <2>1, <2>2 DEF JobTypes, Pointers
  <2>7. Linked(q)'
    BY <1>1, <1>3, <1>4, <1>9, <2>2, <2>4, <2>5, <2>6 DEF Holds, Linked, Inside
  <2>8. WorkerKnows(q)'
    BY <1>1, <1>3, <2>2, <2>4 DEF Holds, WorkerKnows
  <2>9. ASSUME NEW u \in Adders PROVE AdderKnows(u, q)'
    <3>1. CASE u = t
      BY <2>3, <3>1 DEF AdderKnows
    <3>2. CASE u # t
      <4>1. pc'[u] = pc[u] /\ e'[u] = e[u] /\ pc[u] \notin Inside
        BY <1>2, <2>3, <3>2, JobNames
      <4> QED
        BY <1>1, <4>1 DEF Holds, AdderKnows, Inside
    <3> QED
      BY <3>1, <3>2
  <2> QED
    BY <2>3, <2>7, <2>8, <2>9 DEF JobState, Holds
<1> QED
  BY <1>2, <1>6, <1>7, <1>8, <1>9

LEMMA LeaveAddKeeps ==
  ASSUME JobListAssumption, NEW q \in Seq(Jobs), JobState(q), NEW t \in Adders, LeaveAdd(t)
  PROVE  JobState(q)'
<1>1. /\ pc[t] = "leave" /\ lock' = NoJob /\ e' = [e EXCEPT ![t] = NoJob]
      /\ pc' = [pc EXCEPT ![t] = "idle"] /\ UNCHANGED <<head, next, prev>>
  BY DEF LeaveAdd, Goto
<1>2. JobTypes /\ OwnersOK /\ Holds(q) /\ t \in Threads /\ t # Worker
  BY JobNames DEF JobState
<1>3. lock = t /\ \A u \in Threads : u # t => pc[u] \notin Inside
  BY <1>1, <1>2, Alone DEF Inside
<1>4. /\ JobTypes' /\ OwnersOK' /\ pc'[t] = "idle"
      /\ \A u \in Threads : u # t => pc'[u] = pc[u] /\ e'[u] = e[u]
  <2>1. Moves(t, "idle")
    BY <1>1, <1>2, <1>3, JobNames
       DEF Moves, JobTypes, OwnersOK, Pointers, Places, Inside, EmptyHanded
  <2> QED
    BY <1>2, <2>1, MovesKeeps
<1>5. /\ pc'[Worker] = pc[Worker] /\ e'[Worker] = e[Worker] /\ pc[Worker] \notin Inside
      /\ ~Unlinking /\ ~Unlinking' /\ ~Half /\ ~Half'
  BY <1>1, <1>2, <1>3, <1>4, JobNames DEF Unlinking, Half, Inside
<1>6. Linked(q)'
  BY <1>1, <1>2, <1>5 DEF Holds, Linked
<1>7. WorkerKnows(q)'
  BY <1>1, <1>2, <1>5 DEF Holds, WorkerKnows
<1>8. ASSUME NEW u \in Adders PROVE AdderKnows(u, q)'
  <2>1. CASE u = t
    BY <1>4, <2>1 DEF AdderKnows
  <2>2. CASE u # t
    BY <1>1, <1>2, <1>4, <2>2, JobNames DEF Holds, AdderKnows
  <2> QED
    BY <2>1, <2>2
<1> QED
  BY <1>4, <1>6, <1>7, <1>8 DEF JobState, Holds

-----------------------------------------------------------------------------
(* The steps of the worker: what changes of the list is what it knows.     *)
LEMMA AddersKnow ==
  ASSUME JobListAssumption, NEW q, NEW r, JobTypes, OwnersOK, Holds(q),
         \A u \in Adders : pc'[u] = pc[u] /\ e'[u] = e[u],
         \/ UNCHANGED <<head, next, prev>> /\ q = r
         \/ /\ \A u \in Adders : pc[u] \notin Inside
            /\ \A i \in DOMAIN r : \E k \in DOMAIN q : r[i] = q[k]
  PROVE  \A u \in Adders : AdderKnows(u, r)'
<1>1. CASE UNCHANGED <<head, next, prev>> /\ q = r
  BY <1>1 DEF Holds, AdderKnows
<1>2. CASE /\ \A u \in Adders : pc[u] \notin Inside
           /\ \A i \in DOMAIN r : \E k \in DOMAIN q : r[i] = q[k]
  BY <1>2 DEF Holds, AdderKnows, Inside
<1> QED
  BY <1>1, <1>2

(* The worker sees a job, enters and leaves the critical section, or has   *)
(* run the job.                                                            *)
LEMMA WorkerMovesKeeps ==
  ASSUME JobListAssumption, NEW q \in Seq(Jobs), JobState(q),
         SeeJob \/ EnterRemove \/ LeaveRemove \/ Run
  PROVE  JobState(q)'
<1>1. JobTypes /\ OwnersOK /\ Holds(q)
  BY DEF JobState
<1>2. PICK l \in {"remove", "take", "run", "idle"} :
        /\ pc' = [pc EXCEPT ![Worker] = l] /\ UNCHANGED <<head, next, prev>>
        /\ \/ pc[Worker] = "idle" /\ head # NoJob /\ l = "remove" /\ UNCHANGED <<lock, e>>
           \/ pc[Worker] = "remove" /\ lock = NoJob /\ l = "take" /\ lock' = Worker /\ UNCHANGED e
           \/ pc[Worker] = "unlock" /\ l = "run" /\ lock' = NoJob /\ UNCHANGED e
           \/ /\ pc[Worker] = "run" /\ l = "idle" /\ e' = [e EXCEPT ![Worker] = NoJob]
              /\ UNCHANGED lock
  BY DEF SeeJob, EnterRemove, LeaveRemove, Run, Goto
<1>3. pc[Worker] = "unlock" => lock = Worker
  BY <1>1, JobNames DEF OwnersOK, Inside
<1>4. /\ JobTypes' /\ OwnersOK' /\ pc'[Worker] = l
      /\ \A u \in Threads : u # Worker => pc'[u] = pc[u] /\ e'[u] = e[u]
  <2>1. Moves(Worker, l)
    BY <1>1, <1>2, <1>3, JobNames
       DEF Moves, JobTypes, OwnersOK, Pointers, Places, Inside, EmptyHanded
  <2> QED
    BY <2>1, JobNames, MovesKeeps
<1>5. ~Unlinking /\ ~Unlinking' /\ Half' = Half
  BY <1>2, <1>4, JobNames DEF Unlinking, Half
<1>6. Linked(q)'
  BY <1>1, <1>2, <1>4, <1>5 DEF Holds, Linked
<1>7. WorkerKnows(q)'
  BY <1>1, <1>2, <1>4, <1>5 DEF Holds, WorkerKnows, Linked
<1>8. \A u \in Adders : AdderKnows(u, q)'
  BY <1>1, <1>2, <1>4, JobNames, AddersKnow
<1> QED
  BY <1>4, <1>6, <1>7, <1>8 DEF JobState, Holds

(* It takes the first job, which leaves the list, unless it is the only    *)
(* one.                                                                    *)
LEMMA TakeKeeps ==
  ASSUME JobListAssumption, NEW q \in Seq(Jobs), JobState(q), Take
  PROVE  q # <<>> /\ (JobState(q)' \/ \E r \in Seq(Jobs) : r = Tail(q) /\ JobState(r)')
<1>1. JobTypes /\ OwnersOK /\ Holds(q)
  BY DEF JobState
<1> DEFINE l == IF next[head] = head THEN "single" ELSE "unlink1"
<1>2. /\ pc[Worker] = "take" /\ e' = [e EXCEPT ![Worker] = head] /\ head' = next[head]
      /\ pc' = [pc EXCEPT ![Worker] = l] /\ UNCHANGED <<next, prev, lock>>
  BY DEF Take, Goto
<1>3. lock = Worker /\ \A u \in Threads : u # Worker => pc[u] \notin Inside
  BY <1>1, <1>2, JobNames, Alone DEF Inside
<1>4. ~Unlinking /\ ~Half /\ ~Half'
  BY <1>2, <1>3, JobNames DEF Unlinking, Half, Inside, JobState, JobTypes
<1>5. /\ q # <<>> /\ q[1] = head /\ head \in Jobs /\ Len(q) \in Nat \ {0}
      /\ next[q[Len(q)]] = head /\ prev[head] = q[Len(q)]
  <2>1. q # <<>>
    BY <1>1, <1>2 DEF Holds, WorkerKnows
  <2> QED
    BY <1>1, <1>2, <1>4, <2>1 DEF Holds, Linked, JobTypes, Pointers
<1>6. ASSUME NEW u \in Adders PROVE e[u] # head
  <2>1. pc[u] \notin Inside
    BY <1>3, JobNames
  <2>2. pc[u] = "idle" \/ pc[u] = "enter"
    BY <1>1, <2>1, JobNames DEF JobTypes, Places, Inside
  <2>3. CASE pc[u] = "idle"
    BY <1>1, <1>5, <2>3, JobNames DEF OwnersOK, EmptyHanded
  <2>4. CASE pc[u] = "enter"
    BY <1>1, <1>5, <2>4 DEF Holds, AdderKnows
  <2> QED
    BY <2>2, <2>3, <2>4
<1>7. next[head] \in Jobs /\ (next[head] = head <=> Len(q) = 1)
  <2>1. CASE Len(q) = 1
    BY <1>5, <2>1
  <2>2. CASE Len(q) # 1
    <3>0. DOMAIN q = 1..Len(q)
      OBVIOUS
    <3>1. 1 \in 1..(Len(q) - 1) /\ 2 \in DOMAIN q /\ 1 \in DOMAIN q
      BY <1>5, <2>2, <3>0
    <3>2. next[q[1]] = q[1 + 1] /\ q[2] # q[1] /\ q[2] \in Jobs
      BY <1>1, <3>1 DEF Holds, Linked, IsInjective
    <3> QED
      BY <1>5, <2>2, <3>2
  <2> QED
    BY <2>1, <2>2
<1>8. /\ JobTypes' /\ OwnersOK' /\ pc'[Worker] = l /\ e'[Worker] = head
      /\ \A u \in Threads : u # Worker => pc'[u] = pc[u] /\ e'[u] = e[u]
  <2>1. e'[Worker] = head /\ \A u \in Threads : u # Worker => e'[u] = e[u]
    BY <1>1, <1>2, JobNames DEF JobTypes
  <2>2. l \in Places(Worker) /\ l \notin EmptyHanded(Worker)
    BY DEF Places, EmptyHanded
  <2>3. e' \in [Threads -> Jobs \cup {NoJob}] /\ Pointers'
    BY <1>1, <1>2, <1>5, <1>7 DEF JobTypes, Pointers
  <2>4. Moves(Worker, l)
    BY <1>2, <1>3, <1>5, <1>6, <2>1, <2>2, <2>3, JobNames DEF Moves
  <2> QED
    BY <2>1, <2>4, JobNames, MovesKeeps
<1>9. CASE Len(q) = 1
  <2>1. head' = head /\ pc'[Worker] = "single"
    BY <1>2, <1>5, <1>7, <1>8, <1>9
  <2>2. ~Unlinking'
    BY <2>1 DEF Unlinking
  <2>3. Linked(q)'
    BY <1>1, <1>2, <1>4, <1>5, <2>1, <2>2 DEF Holds, Linked
  <2>4. WorkerKnows(q)'
    BY <1>8, <1>9, <2>1, <2>2 DEF WorkerKnows
  <2>5. \A u \in Adders : AdderKnows(u, q)'
    BY <1>1, <1>2, <1>8, <2>1, JobNames, AddersKnow
  <2> QED
    BY <1>5, <1>8, <2>3, <2>4, <2>5 DEF JobState, Holds
<1>10. CASE Len(q) # 1
  <2>1. pc'[Worker] = "unlink1" /\ Unlinking'
    BY <1>7, <1>8, <1>10 DEF Unlinking
  <2>2. PICK r : r = Tail(q)
    OBVIOUS
  <2>3. /\ r \in Seq(Jobs) /\ Len(r) = Len(q) - 1 /\ r # <<>> /\ Len(r) \in Nat \ {0}
        /\ \A i \in 1..Len(r) : r[i] = q[i + 1] /\ i + 1 \in DOMAIN q
    <3>1. /\ r \in Seq(Jobs) /\ Len(r) = Len(q) - 1
          /\ \A i \in 1..Len(r) : r[i] = q[i + 1] /\ i + 1 \in DOMAIN q
      BY <1>5, <2>2, TailIs
    <3> QED
      BY <1>5, <1>10, <3>1
  <2>4. head' = r[1] /\ q[Len(q)] = r[Len(r)]
    <3>1. 1 \in 1..(Len(q) - 1) /\ 1 \in 1..Len(r) /\ Len(r) \in 1..Len(r)
      BY <1>5, <1>10, <2>3
    <3>2. next[q[1]] = q[1 + 1]
      BY <1>1, <3>1 DEF Holds, Linked
    <3> QED
      BY <1>2, <1>5, <2>3, <3>1, <3>2
  <2>5. IsInjective(r)
    BY <1>1, <2>3 DEF Holds, Linked, IsInjective
  <2>6. ASSUME NEW i \in 1..(Len(r) - 1)
        PROVE  next[r[i]] = r[i + 1] /\ prev[r[i + 1]] = r[i]
    <3>1. i + 1 \in 1..(Len(q) - 1) /\ r[i] = q[i + 1] /\ r[i + 1] = q[(i + 1) + 1]
      BY <1>5, <2>3
    <3> QED
      BY <1>1, <3>1 DEF Holds, Linked
  <2>7. \A i \in DOMAIN r : r[i] # head
    BY <1>1, <1>5, <2>3 DEF Holds, Linked, IsInjective
  <2>8. prev[head'] = head
    <3>1. 1 \in 1..(Len(q) - 1) /\ 1 \in 1..Len(r)
      BY <1>5, <1>10, <2>3
    <3>2. prev[q[1 + 1]] = q[1]
      BY <1>1, <3>1 DEF Holds, Linked
    <3> QED
      BY <1>5, <2>3, <2>4, <3>1, <3>2
  <2>9. Linked(r)'
    <3>1. head' # NoJob
      BY <1>2, <1>7, JobNames
    <3> QED
      BY <1>2, <1>5, <1>8, <2>1, <2>3, <2>4, <2>5, <2>6, <2>8, <3>1 DEF Linked
  <2>10. WorkerKnows(r)'
    BY <1>2, <1>5, <1>8, <2>1, <2>3, <2>4, <2>7 DEF WorkerKnows
  <2>11. \A u \in Adders : AdderKnows(u, r)'
    BY <1>1, <1>3, <1>8, <2>3, JobNames, AddersKnow
  <2>12. JobState(r)'
    BY <1>8, <2>9, <2>10, <2>11 DEF JobState, Holds
  <2> QED
    BY <1>5, <2>2, <2>3, <2>12
<1> QED
  BY <1>9, <1>10

(* The only job leaves the list when head becomes null.                    *)
LEMMA TakeLastKeeps ==
  ASSUME JobListAssumption, NEW q \in Seq(Jobs), JobState(q), TakeLast
  PROVE  q # <<>> /\ \E r \in Seq(Jobs) : r = Tail(q) /\ JobState(r)'
<1>1. JobTypes /\ OwnersOK /\ Holds(q)
  BY DEF JobState
<1>2. /\ pc[Worker] = "single" /\ head' = NoJob /\ pc' = [pc EXCEPT ![Worker] = "unlink1"]
      /\ UNCHANGED <<next, prev, lock, e>>
  BY DEF TakeLast, Goto
<1>3. lock = Worker /\ \A u \in Threads : u # Worker => pc[u] \notin Inside
  BY <1>1, <1>2, JobNames, Alone DEF Inside
<1>4. ~Unlinking /\ ~Half
  BY <1>2, <1>3, JobNames DEF Unlinking, Half, Inside
<1>5. Len(q) = 1 /\ e[Worker] = head
  BY <1>1, <1>2 DEF Holds, WorkerKnows
<1>6. q # <<>> /\ q[1] = head /\ next[head] = head /\ prev[head] = head
  <2>1. q = <<>> => Len(q) = 0
    OBVIOUS
  <2> QED
    BY <1>1, <1>2, <1>4, <1>5, <2>1 DEF Holds, Linked
<1>7. /\ JobTypes' /\ OwnersOK' /\ pc'[Worker] = "unlink1"
      /\ \A u \in Threads : u # Worker => pc'[u] = pc[u] /\ e'[u] = e[u]
  <2>1. Moves(Worker, "unlink1")
    BY <1>1, <1>2, <1>3, JobNames
       DEF Moves, JobTypes, OwnersOK, Pointers, Places, Inside, EmptyHanded
  <2> QED
    BY <2>1, JobNames, MovesKeeps
<1>8. PICK r : r = Tail(q)
  OBVIOUS
<1>9. r \in Seq(Jobs) /\ r = <<>> /\ Len(r) = 0 /\ DOMAIN r = {}
  BY <1>5, <1>6, <1>8, TailIs
<1>10. Linked(r)'
  BY <1>2, <1>9 DEF Linked, IsInjective
<1>11. WorkerKnows(r)'
  BY <1>2, <1>5, <1>6, <1>7, <1>9 DEF WorkerKnows
<1>12. \A u \in Adders : AdderKnows(u, r)'
  BY <1>1, <1>3, <1>7, <1>9, JobNames, AddersKnow
<1>13. JobState(r)'
  BY <1>7, <1>10, <1>11, <1>12 DEF JobState, Holds
<1> QED
  BY <1>6, <1>8, <1>9, <1>13

(* e->prev->next = e->next, then e->next->prev = e->prev.                  *)
LEMMA UnlinkKeeps ==
  ASSUME JobListAssumption, NEW q \in Seq(Jobs), JobState(q), Unlink
  PROVE  JobState(q)'
<1>1. JobTypes /\ OwnersOK /\ Holds(q)
  BY DEF JobState
<1>2. pc[Worker] \in {"unlink1", "unlink2"} /\ Unlinking
  BY DEF Unlink, Unlinking
<1>3. lock = Worker /\ \A u \in Threads : u # Worker => pc[u] \notin Inside
  BY <1>1, <1>2, JobNames, Alone DEF Inside
<1>4. ~Half
  BY <1>3, JobNames DEF Half, Inside
<1>5. e[Worker] \in Jobs /\ \A i \in DOMAIN q : q[i] # e[Worker]
  BY <1>1, <1>2, JobNames
     DEF JobTypes, OwnersOK, EmptyHanded, Holds, WorkerKnows
<1>6. CASE q = <<>>
  <2>1. next[e[Worker]] = e[Worker] /\ prev[e[Worker]] = e[Worker]
    BY <1>1, <1>2, <1>6 DEF Holds, WorkerKnows
  <2>2. PICK l \in {"unlink2", "unlock"} :
          /\ pc' = [pc EXCEPT ![Worker] = l] /\ UNCHANGED <<head, lock, e>>
          /\ next'[e[Worker]] = e[Worker] /\ prev'[e[Worker]] = e[Worker]
          /\ Pointers'
    BY <1>1, <1>2, <1>5, <2>1 DEF Unlink, Goto, JobTypes, Pointers
  <2>3. /\ JobTypes' /\ OwnersOK' /\ pc'[Worker] = l
        /\ \A u \in Threads : u # Worker => pc'[u] = pc[u] /\ e'[u] = e[u]
    <3>1. Moves(Worker, l)
      BY <1>1, <1>2, <1>3, <2>2, JobNames
         DEF Moves, JobTypes, OwnersOK, Places, Inside, EmptyHanded
    <3> QED
      BY <3>1, JobNames, MovesKeeps
  <2>4. Linked(q)'
    BY <1>1, <1>6, <2>2 DEF Holds, Linked
  <2>5. WorkerKnows(q)'
    BY <1>6, <2>2, <2>3 DEF WorkerKnows
  <2>6. \A u \in Adders : AdderKnows(u, q)'
    BY <1>1, <1>3, <1>6, <2>3, JobNames, AddersKnow
  <2> QED
    BY <2>3, <2>4, <2>5, <2>6 DEF JobState, Holds
<1>7. CASE q # <<>>
  <2>1. /\ next[e[Worker]] = head /\ prev[e[Worker]] = q[Len(q)]
        /\ q[1] = head /\ head \in Jobs /\ q[Len(q)] \in Jobs
        /\ Len(q) \in Nat \ {0} /\ 1 \in DOMAIN q /\ Len(q) \in DOMAIN q
        /\ head # e[Worker] /\ q[Len(q)] # e[Worker]
    <3>1. next[e[Worker]] = head /\ prev[e[Worker]] = q[Len(q)] /\ q[1] = head
      BY <1>1, <1>2, <1>7 DEF Holds, WorkerKnows, Linked
    <3>2. Len(q) \in Nat \ {0} /\ 1 \in DOMAIN q /\ Len(q) \in DOMAIN q
      BY <1>7
    <3> QED
      BY <1>5, <3>1, <3>2
  <2>2. CASE pc[Worker] = "unlink1"
    <3>1. /\ next' = [next EXCEPT ![q[Len(q)]] = head]
          /\ pc' = [pc EXCEPT ![Worker] = "unlink2"] /\ UNCHANGED <<head, prev, lock, e>>
      BY <2>1, <2>2 DEF Unlink, Goto
    <3>2. /\ JobTypes' /\ OwnersOK' /\ pc'[Worker] = "unlink2"
          /\ \A u \in Threads : u # Worker => pc'[u] = pc[u] /\ e'[u] = e[u]
      <4>1. Moves(Worker, "unlink2")
        BY <1>1, <1>3, <2>1, <2>2, <3>1, JobNames
           DEF Moves, JobTypes, OwnersOK, Pointers, Places, Inside, EmptyHanded
      <4> QED
        BY <4>1, JobNames, MovesKeeps
    <3>3. ASSUME NEW i \in 1..(Len(q) - 1)
          PROVE  next'[q[i]] = q[i + 1] /\ prev'[q[i + 1]] = q[i]
      <4>1. i \in DOMAIN q /\ i # Len(q)
        BY <2>1
      <4>2. q[i] # q[Len(q)] /\ next[q[i]] = q[i + 1] /\ prev[q[i + 1]] = q[i]
        BY <1>1, <2>1, <4>1 DEF Holds, Linked, IsInjective
      <4> QED
        BY <1>1, <2>1, <3>1, <4>1, <4>2 DEF JobTypes, Pointers
    <3>4. /\ next'[q[Len(q)]] = head /\ next'[e[Worker]] = head
          /\ prev[head] = e[Worker]
      BY <1>1, <1>2, <1>5, <1>7, <2>1, <3>1 DEF JobTypes, Pointers, Holds, Linked
    <3>5. Linked(q)'
      BY <1>1, <1>7, <2>1, <3>1, <3>2, <3>3, <3>4 DEF Holds, Linked, Unlinking
    <3>6. WorkerKnows(q)'
      BY <1>5, <1>7, <2>1, <3>1, <3>2, <3>4 DEF WorkerKnows
    <3>7. \A u \in Adders : AdderKnows(u, q)'
      BY <1>1, <1>3, <3>2, JobNames, AddersKnow
    <3> QED
      BY <3>2, <3>5, <3>6, <3>7 DEF JobState, Holds
  <2>3. CASE pc[Worker] = "unlink2"
    <3>1. /\ prev' = [prev EXCEPT ![head] = q[Len(q)]]
          /\ pc' = [pc EXCEPT ![Worker] = "unlock"] /\ UNCHANGED <<head, next, lock, e>>
      BY <2>1, <2>3 DEF Unlink, Goto
    <3>2. /\ JobTypes' /\ OwnersOK' /\ pc'[Worker] = "unlock"
          /\ \A u \in Threads : u # Worker => pc'[u] = pc[u] /\ e'[u] = e[u]
      <4>1. Moves(Worker, "unlock")
        BY <1>1, <1>3, <2>1, <2>3, <3>1, JobNames
           DEF Moves, JobTypes, OwnersOK, Pointers, Places, Inside, EmptyHanded
      <4> QED
        BY <4>1, JobNames, MovesKeeps
    <3>3. ASSUME NEW i \in 1..(Len(q) - 1)
          PROVE  next'[q[i]] = q[i + 1] /\ prev'[q[i + 1]] = q[i]
      <4>1. i + 1 \in DOMAIN q /\ i + 1 # 1
        BY <2>1
      <4>2. q[i + 1] # q[1] /\ next[q[i]] = q[i + 1] /\ prev[q[i + 1]] = q[i]
        BY <1>1, <2>1, <4>1 DEF Holds, Linked, IsInjective
      <4> QED
        BY <1>1, <2>1, <3>1, <4>1, <4>2 DEF JobTypes, Pointers
    <3>4. next[q[Len(q)]] = head /\ prev'[head] = q[Len(q)]
      BY <1>1, <1>7, <2>1, <2>3, <3>1 DEF JobTypes, Pointers, Holds, Linked
    <3>5. Linked(q)'
      BY <1>1, <1>7, <2>1, <3>1, <3>2, <3>3, <3>4 DEF Holds, Linked, Unlinking
    <3>6. WorkerKnows(q)'
      BY <1>5, <1>7, <3>1, <3>2 DEF WorkerKnows, Unlinking
    <3>7. \A u \in Adders : AdderKnows(u, q)'
      BY <1>1, <1>3, <3>2, JobNames, AddersKnow
    <3> QED
      BY <3>2, <3>5, <3>6, <3>7 DEF JobState, Holds
  <2> QED
    BY <1>2, <2>2, <2>3
<1> QED
  BY <1>6, <1>7

-----------------------------------------------------------------------------
(* Every step leaves the list as it is, adds a job that is not in it, or   *)
(* takes the first: what JobQueue does.                                    *)
LEMMA JobStep ==
  ASSUME JobListAssumption, JobInv, [JobsNext]_jobVars
  PROVE  JobInv' /\ [Queue!Next]_List
<1>1. PICK q \in Seq(Jobs) : JobState(q)
  BY DEF JobInv
<1>2. List = q
  BY <1>1, ListIs
<1>3. ASSUME NEW r \in Seq(Jobs), JobState(r)'
      PROVE  JobInv' /\ List' = r
  BY <1>3, ListIsThen DEF JobInv
<1>4. \/ JobState(q)'
      \/ \E r \in Seq(Jobs) : JobState(r)' /\ q # <<>> /\ r = Tail(q)
      \/ \E j \in Jobs, r \in Seq(Jobs) :
           JobState(r)' /\ r = Append(q, j) /\ \A i \in DOMAIN q : q[i] # j
  <2>1. CASE UNCHANGED jobVars
    BY <1>1, <2>1
       DEF jobVars, JobState, JobTypes, Pointers, OwnersOK, Holds, Linked, Unlinking, Half,
           WorkerKnows, AdderKnows
  <2>2. ASSUME NEW t \in Adders, AdderNext(t)
        PROVE  <1>4!1 \/ <1>4!3
    <3>1. CASE \E j \in Jobs : NewJob(t, j)
      BY <1>1, <3>1, NewJobKeeps
    <3>2. CASE EnterAdd(t)
      BY <1>1, <3>2, EnterAddKeeps
    <3>3. CASE First(t)
      <4>1. CASE JobState(q)'
        BY <4>1
      <4>2. CASE e[t] \in Jobs /\ q = <<>> /\ \E r \in Seq(Jobs) : r = <<e[t]>> /\ JobState(r)'
        <5>1. <<e[t]>> = Append(q, e[t]) /\ \A i \in DOMAIN q : q[i] # e[t]
          BY <4>2
        <5> QED
          BY <4>2, <5>1
      <4> QED
        BY <1>1, <3>3, <4>1, <4>2, FirstKeeps
    <3>4. CASE Link(t)
      BY <1>1, <3>4, LinkKeeps
    <3>5. CASE LeaveAdd(t)
      BY <1>1, <3>5, LeaveAddKeeps
    <3> QED
      BY <2>2, <3>1, <3>2, <3>3, <3>4, <3>5 DEF AdderNext
  <2>3. CASE WorkerNext
    <3>1. CASE SeeJob \/ EnterRemove \/ LeaveRemove \/ Run
      BY <1>1, <3>1, WorkerMovesKeeps
    <3>2. CASE Take
      BY <1>1, <3>2, TakeKeeps
    <3>3. CASE TakeLast
      BY <1>1, <3>3, TakeLastKeeps
    <3>4. CASE Unlink
      BY <1>1, <3>4, UnlinkKeeps
    <3> QED
      BY <2>3, <3>1, <3>2, <3>3, <3>4 DEF WorkerNext
  <2> QED
    BY <2>1, <2>2, <2>3 DEF JobsNext
<1>5. CASE JobState(q)'
  BY <1>2, <1>3, <1>5
<1>6. CASE \E r \in Seq(Jobs) : JobState(r)' /\ q # <<>> /\ r = Tail(q)
  BY <1>2, <1>3, <1>6 DEF Queue!Next, Queue!Remove
<1>7. CASE \E j \in Jobs, r \in Seq(Jobs) :
             JobState(r)' /\ r = Append(q, j) /\ \A i \in DOMAIN q : q[i] # j
  BY <1>2, <1>3, <1>7 DEF Queue!Next, Queue!Add
<1> QED
  BY <1>4, <1>5, <1>6, <1>7

LEMMA JobsStart ==
  ASSUME JobListAssumption, JobsInit
  PROVE  JobInv /\ Queue!Init
<1>1. JobState(<<>>)
  BY JobNames
     DEF JobsInit, JobState, JobTypes, Pointers, OwnersOK, Holds, Linked, IsInjective,
         WorkerKnows, AdderKnows, Places, Inside, Outside, EmptyHanded, Unlinking
<1>2. <<>> \in Seq(Jobs)
  OBVIOUS
<1>3. List = <<>>
  BY <1>1, <1>2, ListIs
<1> QED
  BY <1>1, <1>2, <1>3 DEF JobInv, Queue!Init

(* What the pointers are in every state, between any two assignments.      *)
THEOREM JobListInvariant ==
  ASSUME JobListAssumption
  PROVE  JobsSpec => []JobInv
<1>1. JobsInit => JobInv
  BY JobsStart
<1>2. JobInv /\ [JobsNext]_jobVars => JobInv'
  BY JobStep
<1> QED
  BY <1>1, <1>2, PTL DEF JobsSpec

(* removeJob() and the worker, which test head without the lock and do not *)
(* look for null afterwards, find a job; and whenever nobody is in the     *)
(* critical section the list is closed in both directions.                 *)
THEOREM WorkerFindsJob ==
  ASSUME JobListAssumption
  PROVE  JobsSpec => [](RemoverFindsJob /\ Circular)
<1>1. ASSUME JobInv PROVE RemoverFindsJob /\ Circular
  <2>1. PICK q \in Seq(Jobs) : JobState(q)
    BY <1>1 DEF JobInv
  <2>2. List = q /\ JobTypes /\ OwnersOK /\ Holds(q)
    BY <2>1, ListIs DEF JobState
  <2>3. RemoverFindsJob
    BY <2>2 DEF RemoverFindsJob, Holds, WorkerKnows, Linked
  <2>4. ASSUME lock = NoJob, NEW i \in DOMAIN q
        PROVE  prev[next[q[i]]] = q[i] /\ next[prev[q[i]]] = q[i]
    <3>1. \A t \in Threads : pc[t] \notin Inside
      BY <2>2, <2>4, JobNames DEF OwnersOK
    <3>2. ~Unlinking /\ ~Half /\ pc[Worker] # "unlink1"
      BY <3>1, JobNames DEF Unlinking, Half, Inside
    <3>3. /\ q # <<>> /\ Len(q) \in Nat \ {0} /\ i \in 1..Len(q)
          /\ q[1] = head /\ next[q[Len(q)]] = head /\ prev[head] = q[Len(q)]
      <4>1. q # <<>> /\ Len(q) \in Nat \ {0} /\ i \in 1..Len(q)
        BY <2>4
      <4> QED
        BY <2>2, <3>2, <4>1 DEF Holds, Linked
    <3>4. prev[next[q[i]]] = q[i]
      <4>1. CASE i = Len(q)
        BY <3>3, <4>1
      <4>2. CASE i # Len(q)
        <5>1. i \in 1..(Len(q) - 1)
          BY <3>3, <4>2
        <5> QED
          BY <2>2, <5>1 DEF Holds, Linked
      <4> QED
        BY <4>1, <4>2
    <3>5. next[prev[q[i]]] = q[i]
      <4>1. CASE i = 1
        BY <3>3, <4>1
      <4>2. CASE i # 1
        <5>1. i - 1 \in 1..(Len(q) - 1) /\ (i - 1) + 1 = i
          BY <3>3, <4>2
        <5>2. next[q[i - 1]] = q[(i - 1) + 1] /\ prev[q[(i - 1) + 1]] = q[i - 1]
          BY <2>2, <5>1 DEF Holds, Linked
        <5> QED
          BY <5>1, <5>2
      <4> QED
        BY <4>1, <4>2
    <3> QED
      BY <3>4, <3>5
  <2> QED
    BY <2>2, <2>3, <2>4 DEF Circular
<1> QED
  BY <1>1, JobListInvariant, PTL

(* The list, changed assignment by assignment by any number of threads and *)
(* tested outside of its critical section, is the queue that Database.tla  *)
(* takes it for: every addJob() and every removeJob() takes effect at one  *)
(* moment.                                                                 *)
THEOREM JobListIsQueue ==
  ASSUME JobListAssumption
  PROVE  JobsSpec => IsQueue
<1>1. JobsInit => Queue!Init
  BY JobsStart
<1>2. JobInv /\ [JobsNext]_jobVars => [Queue!Next]_List
  BY JobStep
<1> QED
  BY <1>1, <1>2, JobListInvariant, PTL DEF JobsSpec, IsQueue, Queue!Spec

-----------------------------------------------------------------------------
(* The array: what is in front of len are objects, what is behind is zero. *)
ArrayInv ==
  /\ len \in Nat /\ arrayCapacity \in Nat /\ len <= arrayCapacity
  /\ data \in [0..(arrayCapacity - 1) -> Objects \cup {Null}]
  /\ \A i \in 0..(len - 1) : data[i] \in Objects
  /\ RestIsZero

LEMMA SeqIs ==
  ASSUME NEW S, NEW s \in Seq(S), NEW f, f = [k \in 1..Len(s) |-> f[k]],
         \A k \in 1..Len(s) : s[k] = f[k]
  PROVE  s = f
<1>1. s = [k \in 1..Len(s) |-> s[k]]
  OBVIOUS
<1> QED
  BY <1>1

(* Sequences by their elements: with one more, and with one less.          *)
Inserted(s, i, o) == SubSeq(s, 1, i) \o <<o>> \o SubSeq(s, i + 1, Len(s))
Shortened(s, i) == SubSeq(s, 1, i) \o SubSeq(s, i + 2, Len(s))

LEMMA InsertIs ==
  ASSUME NEW S, NEW s \in Seq(S), NEW o \in S, NEW i \in 0..Len(s)
  PROVE  Inserted(s, i, o)
           = [k \in 1..(Len(s) + 1) |-> IF k <= i THEN s[k]
                                        ELSE IF k = i + 1 THEN o ELSE s[k - 1]]
<1> DEFINE a == SubSeq(s, 1, i)
           b == SubSeq(s, i + 1, Len(s))
           c == a \o <<o>>
<1>1. Len(s) \in Nat /\ i \in Nat /\ i <= Len(s)
  OBVIOUS
<1>2. a \in Seq(S) /\ Len(a) = i /\ \A k \in 1..i : a[k] = s[k]
  BY <1>1
<1>3. b \in Seq(S) /\ Len(b) = Len(s) - i /\ \A k \in 1..(Len(s) - i) : b[k] = s[i + k]
  BY <1>1
<1> HIDE DEF a, b
<1>4. /\ c \in Seq(S) /\ Len(c) = i + 1 /\ c[i + 1] = o
      /\ \A k \in 1..i : c[k] = s[k]
  BY <1>1, <1>2
<1> HIDE DEF c
<1>5. /\ c \o b \in Seq(S) /\ Len(c \o b) = Len(s) + 1
      /\ \A k \in 1..(i + 1) : (c \o b)[k] = c[k]
      /\ \A k \in 1..(Len(s) - i) : (c \o b)[(i + 1) + k] = b[k]
  BY <1>1, <1>3, <1>4
<1> DEFINE w(k) == IF k <= i THEN s[k] ELSE IF k = i + 1 THEN o ELSE s[k - 1]
<1>6. ASSUME NEW k \in 1..(Len(s) + 1)
      PROVE  (c \o b)[k] = w(k)
  <2>1. CASE k <= i
    <3>1. k \in 1..i /\ k \in 1..(i + 1) /\ w(k) = s[k]
      BY <1>1, <2>1
    <3>2. (c \o b)[k] = c[k] /\ c[k] = s[k]
      BY <1>4, <1>5, <3>1
    <3> QED
      BY <3>1, <3>2
  <2>2. CASE k = i + 1
    <3>1. k \in 1..(i + 1) /\ w(k) = o
      BY <1>1, <2>2
    <3>2. (c \o b)[k] = c[k] /\ c[k] = o
      BY <1>4, <1>5, <2>2, <3>1
    <3> QED
      BY <3>1, <3>2
  <2>3. CASE k > i + 1
    <3>1. PICK m \in 1..(Len(s) - i) : k = (i + 1) + m /\ k - 1 = i + m
      <4>1. k - (i + 1) \in 1..(Len(s) - i)
        BY <1>1, <2>3
      <4> QED
        BY <1>1, <4>1
    <3>2. w(k) = s[k - 1]
      BY <1>1, <2>3
    <3>3. (c \o b)[(i + 1) + m] = b[m] /\ b[m] = s[i + m]
      BY <1>3, <1>5
    <3> QED
      BY <3>1, <3>2, <3>3
  <2>4. k <= i \/ k = i + 1 \/ k > i + 1
    BY <1>1
  <2> HIDE DEF w
  <2> QED
    BY <2>1, <2>2, <2>3, <2>4
<1> HIDE DEF w
<1> DEFINE f == [k \in 1..(Len(s) + 1) |-> w(k)]
<1>7. c \o b = f
  <2>1. f = [k \in 1..Len(c \o b) |-> f[k]] /\ \A k \in 1..Len(c \o b) : (c \o b)[k] = f[k]
    BY <1>5, <1>6
  <2> HIDE DEF f
  <2> DEFINE t == c \o b
  <2>2. t \in Seq(S) /\ f = [k \in 1..Len(t) |-> f[k]] /\ \A k \in 1..Len(t) : t[k] = f[k]
    BY <1>5, <2>1
  <2> HIDE DEF t
  <2>3. t = f
    BY <2>2, SeqIs
  <2> QED
    BY <2>3 DEF t
<1> QED
  BY <1>7 DEF a, b, c, w, Inserted

LEMMA RemoveIs ==
  ASSUME NEW S, NEW s \in Seq(S), NEW i \in 0..(Len(s) - 1)
  PROVE  Shortened(s, i)
           = [k \in 1..(Len(s) - 1) |-> IF k <= i THEN s[k] ELSE s[k + 1]]
<1> DEFINE a == SubSeq(s, 1, i)
           b == SubSeq(s, i + 2, Len(s))
           n == Len(s) - (i + 1)
<1>1. Len(s) \in Nat /\ i \in Nat /\ i < Len(s) /\ n \in Nat /\ n = Len(s) - (i + 1)
  OBVIOUS
<1>2. a \in Seq(S) /\ Len(a) = i /\ \A k \in 1..i : a[k] = s[k]
  BY <1>1
<1>3. b \in Seq(S) /\ Len(b) = n /\ \A k \in 1..n : b[k] = s[(i + 1) + k]
  BY <1>1
<1> HIDE DEF a, b, n
<1>4. /\ a \o b \in Seq(S) /\ Len(a \o b) = Len(s) - 1
      /\ \A k \in 1..i : (a \o b)[k] = a[k]
      /\ \A k \in 1..n : (a \o b)[i + k] = b[k]
  BY <1>1, <1>2, <1>3
<1> DEFINE w(k) == IF k <= i THEN s[k] ELSE s[k + 1]
<1>5. ASSUME NEW k \in 1..(Len(s) - 1)
      PROVE  (a \o b)[k] = w(k)
  <2>1. CASE k <= i
    <3>1. k \in 1..i /\ w(k) = s[k]
      BY <1>1, <2>1
    <3>2. (a \o b)[k] = a[k] /\ a[k] = s[k]
      BY <1>2, <1>4, <3>1
    <3> QED
      BY <3>1, <3>2
  <2>2. CASE k > i
    <3>1. PICK m \in 1..n : k = i + m /\ k + 1 = (i + 1) + m
      <4>1. k - i \in 1..n
        BY <1>1, <2>2
      <4> QED
        BY <1>1, <4>1
    <3>2. w(k) = s[k + 1]
      BY <1>1, <2>2
    <3>3. (a \o b)[i + m] = b[m] /\ b[m] = s[(i + 1) + m]
      BY <1>3, <1>4
    <3> QED
      BY <3>1, <3>2, <3>3
  <2>3. k <= i \/ k > i
    BY <1>1
  <2> HIDE DEF w
  <2> QED
    BY <2>1, <2>2, <2>3
<1> HIDE DEF w
<1> DEFINE f == [k \in 1..(Len(s) - 1) |-> w(k)]
<1>6. a \o b = f
  <2>1. f = [k \in 1..Len(a \o b) |-> f[k]] /\ \A k \in 1..Len(a \o b) : (a \o b)[k] = f[k]
    BY <1>4, <1>5
  <2> HIDE DEF f
  <2> DEFINE t == a \o b
  <2>2. t \in Seq(S) /\ f = [k \in 1..Len(t) |-> f[k]] /\ \A k \in 1..Len(t) : t[k] = f[k]
    BY <1>4, <2>1
  <2> HIDE DEF t
  <2>3. t = f
    BY <2>2, SeqIs
  <2> QED
    BY <2>3 DEF t
<1> QED
  BY <1>6 DEF a, b, w, Shortened

LEMMA ElementsAre ==
  ASSUME ArrayInv
  PROVE  /\ Elements \in Seq(Objects) /\ Len(Elements) = len /\ DOMAIN Elements = 1..len
         /\ \A k \in 1..len : Elements[k] = data[k - 1]
<1>1. ASSUME NEW k \in 1..len PROVE data[k - 1] \in Objects
  <2>1. k - 1 \in 0..(len - 1)
    BY DEF ArrayInv
  <2> QED
    BY <2>1 DEF ArrayInv
<1>2. Elements \in [1..len -> Objects] /\ len \in Nat
  BY <1>1 DEF Elements, ArrayInv
<1> QED
  BY <1>2 DEF Elements

(* grow() finds one cell more than are used.                               *)
LEMMA GrownIs ==
  ASSUME ArrayInv
  PROVE  /\ GrownTo \in Nat /\ len + 1 <= GrownTo
         /\ \A i \in 0..(len - 1) : i \in 0..(arrayCapacity - 1) /\ GrownData[i] = data[i]
         /\ \A i \in len..(GrownTo - 1) : GrownData[i] = Null
<1>1. GrownTo \in Nat /\ len + 1 <= GrownTo
  BY DEF ArrayInv, GrownTo
<1>2. CASE GrownTo = arrayCapacity
  BY <1>1, <1>2 DEF GrownData, ArrayInv, RestIsZero
<1>3. CASE GrownTo # arrayCapacity
  BY <1>1, <1>3 DEF GrownData, ArrayInv, Realloc
<1> QED
  BY <1>1, <1>2, <1>3

(* add() puts the object at its place, and the others keep their order.    *)
LEMMA AddInserts ==
  ASSUME ArrayListAssumption, ArrayInv, NEW before \in 0..len, NEW o \in Objects,
         Add(before, o)
  PROVE  ArrayInv' /\ Abstract!Insert(before, o)
<1>1. /\ len \in Nat /\ len' = len + 1 /\ len' \in Nat /\ before \in Nat /\ before <= len
      /\ GrownTo \in Nat /\ arrayCapacity' = GrownTo /\ len' <= arrayCapacity'
  BY GrownIs DEF ArrayInv, Add
<1>2. \A i \in 0..(arrayCapacity' - 1) :
        data'[i] = IF i = before THEN o
                   ELSE IF i \in (before + 1)..len THEN GrownData[i - 1]
                   ELSE GrownData[i]
  BY <1>1 DEF Add
<1>3. /\ \A i \in 0..(len - 1) : GrownData[i] = data[i] /\ data[i] \in Objects
      /\ \A i \in len..(arrayCapacity' - 1) : GrownData[i] = Null
  BY <1>1, GrownIs DEF ArrayInv
<1>4. /\ data'[before] = o
      /\ \A i \in 0..(before - 1) : data'[i] = data[i]
      /\ \A i \in (before + 1)..len : data'[i] = data[i - 1]
      /\ \A i \in len'..(arrayCapacity' - 1) : data'[i] = Null
  <2>1. before \in 0..(arrayCapacity' - 1) /\ data'[before] = o
    BY <1>1, <1>2
  <2>2. ASSUME NEW i \in 0..(before - 1) PROVE data'[i] = data[i]
    <3>1. i \in 0..(arrayCapacity' - 1) /\ i # before /\ i \notin (before + 1)..len /\ i \in 0..(len - 1)
      BY <1>1
    <3> QED
      BY <1>2, <1>3, <3>1
  <2>3. ASSUME NEW i \in (before + 1)..len PROVE data'[i] = data[i - 1]
    <3>1. i \in 0..(arrayCapacity' - 1) /\ i # before /\ i - 1 \in 0..(len - 1)
      BY <1>1
    <3>2. data'[i] = GrownData[i - 1]
      BY <1>2, <3>1
    <3> QED
      BY <1>3, <3>1, <3>2
  <2>4. ASSUME NEW i \in len'..(arrayCapacity' - 1) PROVE data'[i] = Null
    <3>1. i \in 0..(arrayCapacity' - 1) /\ i # before /\ i \notin (before + 1)..len
          /\ i \in len..(arrayCapacity' - 1)
      BY <1>1
    <3> QED
      BY <1>2, <1>3, <3>1
  <2> QED
    BY <2>1, <2>2, <2>3, <2>4
<1>5. \A i \in 0..(len' - 1) : data'[i] \in Objects
  <2>1. ASSUME NEW i \in 0..(len' - 1) PROVE data'[i] \in Objects
    <3>1. CASE i < before
      <4>1. i \in 0..(before - 1) /\ i \in 0..(len - 1)
        BY <1>1, <3>1
      <4> QED
        BY <1>3, <1>4, <4>1
    <3>2. CASE i = before
      BY <1>4, <3>2
    <3>3. CASE i > before
      <4>1. i \in (before + 1)..len /\ i - 1 \in 0..(len - 1)
        BY <1>1, <3>3
      <4>2. data'[i] = data[i - 1] /\ data[i - 1] \in Objects
        BY <1>3, <1>4, <4>1
      <4> QED
        BY <4>2
    <3> QED
      BY <1>1, <3>1, <3>2, <3>3
  <2> QED
    BY <2>1
<1>6. ArrayInv'
  <2>1. data' \in [0..(arrayCapacity' - 1) -> Objects \cup {Null}]
    <3>1. ASSUME NEW i \in 0..(arrayCapacity' - 1) PROVE data'[i] \in Objects \cup {Null}
      <4>1. i \in 0..(len' - 1) \/ i \in len'..(arrayCapacity' - 1)
        BY <1>1
      <4> QED
        BY <1>4, <1>5, <4>1
    <3>2. data' = [i \in 0..(arrayCapacity' - 1) |-> data'[i]]
      BY <1>1 DEF Add
    <3> QED
      BY <3>1, <3>2
  <2> QED
    BY <1>1, <1>4, <1>5, <2>1 DEF ArrayInv, RestIsZero
<1>7. Abstract!Insert(before, o)
  <2>1. /\ Elements \in Seq(Objects) /\ Len(Elements) = len
        /\ \A k \in 1..len : Elements[k] = data[k - 1]
    BY ElementsAre
  <2>2. Elements' = [k \in 1..len' |-> data'[k - 1]]
    BY DEF Elements
  <2>3. ASSUME NEW k \in 1..(len + 1)
        PROVE  data'[k - 1] = IF k <= before THEN Elements[k]
                              ELSE IF k = before + 1 THEN o ELSE Elements[k - 1]
    <3>1. CASE k <= before
      <4>1. k - 1 \in 0..(before - 1) /\ k \in 1..len
        BY <1>1, <3>1
      <4>2. data'[k - 1] = Elements[k]
        BY <1>4, <2>1, <4>1
      <4> QED
        BY <3>1, <4>2
    <3>2. CASE k = before + 1
      BY <1>1, <1>4, <3>2
    <3>3. CASE k > before + 1
      <4>1. k - 1 \in (before + 1)..len /\ k - 1 \in 1..len /\ ~(k <= before) /\ k # before + 1
        BY <1>1, <3>3
      <4>2. data'[k - 1] = data[(k - 1) - 1] /\ Elements[k - 1] = data[(k - 1) - 1]
        BY <1>4, <2>1, <4>1
      <4> QED
        BY <4>1, <4>2
    <3> QED
      BY <1>1, <3>1, <3>2, <3>3
  <2>4. Elements' = [k \in 1..(len + 1) |->
                       IF k <= before THEN Elements[k]
                       ELSE IF k = before + 1 THEN o ELSE Elements[k - 1]]
    BY <1>1, <2>2, <2>3
  <2>5. Elements' = Inserted(Elements, before, o)
    <3>1. before \in 0..Len(Elements)
      BY <2>1
    <3> QED
      BY <2>1, <2>4, <3>1, InsertIs
  <2> QED
    BY <1>1, <2>1, <2>5 DEF Abstract!Insert, Inserted
<1> QED
  BY <1>6, <1>7

LEMMA SetReplaces ==
  ASSUME ArrayInv, NEW i, NEW o \in Objects, Set(i, o)
  PROVE  ArrayInv' /\ Abstract!Set(i, o)
<1>1. /\ len' = len /\ arrayCapacity' = arrayCapacity /\ i \in 0..(len - 1)
      /\ i \in 0..(arrayCapacity - 1) /\ len \in Nat /\ arrayCapacity \in Nat
      /\ data' = [data EXCEPT ![i] = o]
  BY DEF Set, ArrayInv
<1>2. data'[i] = o /\ \A k \in 0..(arrayCapacity - 1) : k # i => data'[k] = data[k]
  BY <1>1 DEF ArrayInv
<1>3. ArrayInv'
  BY <1>1, <1>2 DEF ArrayInv, RestIsZero
<1>4. /\ Elements \in [1..len -> Objects] /\ Len(Elements) = len
      /\ \A k \in 1..len : Elements[k] = data[k - 1]
  BY <1>1, ElementsAre
<1>5. Elements' = [Elements EXCEPT ![i + 1] = o]
  <2>1. ASSUME NEW k \in 1..len
        PROVE  data'[k - 1] = [Elements EXCEPT ![i + 1] = o][k]
    <3>1. CASE k = i + 1
      <4>1. k - 1 = i
        BY <1>1, <3>1
      <4> QED
        BY <1>2, <1>4, <3>1, <4>1
    <3>2. CASE k # i + 1
      <4>1. k - 1 # i /\ k - 1 \in 0..(arrayCapacity - 1)
        BY <1>1, <3>2 DEF ArrayInv
      <4>2. data'[k - 1] = Elements[k]
        BY <1>2, <1>4, <4>1
      <4> QED
        BY <1>4, <3>2, <4>2
    <3> QED
      BY <3>1, <3>2
  <2>2. Elements' = [k \in 1..len |-> data'[k - 1]]
    BY <1>1 DEF Elements
  <2>3. [Elements EXCEPT ![i + 1] = o] = [k \in 1..len |-> [Elements EXCEPT ![i + 1] = o][k]]
    BY <1>4
  <2> QED
    BY <2>1, <2>2, <2>3
<1> QED
  BY <1>1, <1>3, <1>4, <1>5 DEF Abstract!Set

(* Removing moves the rest one cell down, and clears the cell it leaves;   *)
(* with the array cut to its length there is no such cell.                 *)
LEMMA RemovedTakesOut ==
  ASSUME ArrayInv, NEW ix \in 0..(len - 1), Removed(ix)
  PROVE  ArrayInv' /\ Abstract!RemoveAt(ix)
<1>1. /\ len \in Nat \ {0} /\ len' = len - 1 /\ len' \in Nat /\ ix \in Nat /\ ix <= len'
      /\ arrayCapacity \in Nat /\ len <= arrayCapacity
  BY DEF ArrayInv, Removed
<1>2. PICK d : d = [i \in 0..(arrayCapacity - 1) |->
                      IF i = len - 1 THEN Null
                      ELSE IF i \in ix..(len - 2) THEN data[i + 1]
                      ELSE data[i]]
  OBVIOUS
<1>3. /\ \A i \in 0..(ix - 1) : d[i] = data[i]
      /\ \A i \in ix..(len' - 1) : d[i] = data[i + 1]
      /\ \A i \in len'..(arrayCapacity - 1) : d[i] = Null
  <2>1. ASSUME NEW i \in 0..(ix - 1) PROVE d[i] = data[i]
    <3>1. i \in 0..(arrayCapacity - 1) /\ i # len - 1 /\ i \notin ix..(len - 2)
      BY <1>1
    <3> QED
      BY <1>2, <3>1
  <2>2. ASSUME NEW i \in ix..(len' - 1) PROVE d[i] = data[i + 1]
    <3>1. i \in 0..(arrayCapacity - 1) /\ i # len - 1 /\ i \in ix..(len - 2)
      BY <1>1
    <3> QED
      BY <1>2, <3>1
  <2>3. ASSUME NEW i \in len'..(arrayCapacity - 1) PROVE d[i] = Null
    <3>1. i \in 0..(arrayCapacity - 1) /\ i \notin ix..(len - 2)
      BY <1>1
    <3>2. CASE i = len - 1
      BY <1>2, <3>1, <3>2
    <3>3. CASE i # len - 1
      <4>1. i \in len..(arrayCapacity - 1)
        BY <1>1, <3>3
      <4>2. data[i] = Null
        BY <4>1 DEF ArrayInv, RestIsZero
      <4> QED
        BY <1>2, <3>1, <3>3, <4>2
    <3> QED
      BY <3>2, <3>3
  <2> QED
    BY <2>1, <2>2, <2>3
<1>4. /\ arrayCapacity' \in Nat /\ len' <= arrayCapacity' /\ arrayCapacity' <= arrayCapacity
      /\ \A i \in 0..(arrayCapacity' - 1) : data'[i] = d[i]
      /\ data' = [i \in 0..(arrayCapacity' - 1) |-> data'[i]]
  <2>1. CASE Shrinks
    <3>1. arrayCapacity' = len - 1 /\ data' = Realloc(d, len - 1, len - 1)
      BY <1>2, <2>1 DEF Removed
    <3> QED
      BY <1>1, <3>1 DEF Realloc
  <2>2. CASE ~Shrinks
    <3>1. data' = d /\ arrayCapacity' = arrayCapacity
      BY <1>2, <2>2 DEF Removed
    <3>2. d = [i \in 0..(arrayCapacity - 1) |-> d[i]]
      BY <1>2
    <3> QED
      BY <1>1, <3>1, <3>2
  <2> QED
    BY <2>1, <2>2
<1>5. /\ \A i \in 0..(ix - 1) : data'[i] = data[i] /\ data[i] \in Objects
      /\ \A i \in ix..(len' - 1) : data'[i] = data[i + 1] /\ data[i + 1] \in Objects
      /\ \A i \in len'..(arrayCapacity' - 1) : data'[i] = Null
  <2>1. ASSUME NEW i \in 0..(ix - 1) PROVE data'[i] = data[i] /\ data[i] \in Objects
    <3>1. i \in 0..(arrayCapacity' - 1) /\ i \in 0..(len - 1)
      BY <1>1, <1>4
    <3> QED
      BY <1>3, <1>4, <3>1 DEF ArrayInv
  <2>2. ASSUME NEW i \in ix..(len' - 1)
        PROVE  data'[i] = data[i + 1] /\ data[i + 1] \in Objects
    <3>1. i \in 0..(arrayCapacity' - 1) /\ i + 1 \in 0..(len - 1)
      BY <1>1, <1>4
    <3> QED
      BY <1>3, <1>4, <3>1 DEF ArrayInv
  <2>3. ASSUME NEW i \in len'..(arrayCapacity' - 1) PROVE data'[i] = Null
    <3>1. i \in 0..(arrayCapacity' - 1) /\ i \in len'..(arrayCapacity - 1)
      BY <1>1, <1>4
    <3> QED
      BY <1>3, <1>4, <3>1
  <2> QED
    BY <2>1, <2>2, <2>3
<1>6. ArrayInv'
  <2>1. \A i \in 0..(len' - 1) : data'[i] \in Objects
    <3>1. ASSUME NEW i \in 0..(len' - 1) PROVE data'[i] \in Objects
      <4>1. i \in 0..(ix - 1) \/ i \in ix..(len' - 1)
        BY <1>1
      <4> QED
        BY <1>5, <4>1
    <3> QED
      BY <3>1
  <2>2. ASSUME NEW i \in 0..(arrayCapacity' - 1) PROVE data'[i] \in Objects \cup {Null}
    <3>1. i \in 0..(len' - 1) \/ i \in len'..(arrayCapacity' - 1)
      BY <1>1
    <3> QED
      BY <1>5, <2>1, <3>1
  <2>3. data' \in [0..(arrayCapacity' - 1) -> Objects \cup {Null}]
    BY <1>4, <2>2
  <2> QED
    BY <1>1, <1>4, <1>5, <2>1, <2>3 DEF ArrayInv, RestIsZero
<1>7. Elements' = Shortened(Elements, ix)
  <2>1. /\ Elements \in Seq(Objects) /\ Len(Elements) = len
        /\ \A k \in 1..len : Elements[k] = data[k - 1]
    BY ElementsAre
  <2>2. Elements' = [k \in 1..(len - 1) |-> data'[k - 1]]
    BY <1>1 DEF Elements
  <2>3. ASSUME NEW k \in 1..(len - 1)
        PROVE  data'[k - 1] = IF k <= ix THEN Elements[k] ELSE Elements[k + 1]
    <3>1. k \in 1..len /\ k + 1 \in 1..len /\ (k - 1) + 1 = k /\ (k + 1) - 1 = k
      BY <1>1
    <3>2. CASE k <= ix
      <4>1. k - 1 \in 0..(ix - 1)
        BY <1>1, <3>2
      <4>2. data'[k - 1] = Elements[k]
        BY <1>5, <2>1, <3>1, <4>1
      <4> QED
        BY <3>2, <4>2
    <3>3. CASE ~(k <= ix)
      <4>1. k - 1 \in ix..(len' - 1)
        BY <1>1, <3>3
      <4>2. data'[k - 1] = data[k] /\ Elements[k + 1] = data[k]
        BY <1>5, <2>1, <3>1, <4>1
      <4> QED
        BY <3>3, <4>2
    <3> QED
      BY <3>2, <3>3
  <2>4. Elements' = [k \in 1..(len - 1) |->
                       IF k <= ix THEN Elements[k] ELSE Elements[k + 1]]
    BY <2>2, <2>3
  <2>5. ix \in 0..(Len(Elements) - 1)
    BY <2>1
  <2> QED
    BY <2>1, <2>4, <2>5, RemoveIs
<1>8. ix \in 0..(Len(Elements) - 1)
  BY ElementsAre
<1> QED
  BY <1>6, <1>7, <1>8 DEF Abstract!RemoveAt, Shortened

(* Every operation of the array is an operation on the sequence, or none.  *)
LEMMA ArrayStep ==
  ASSUME ArrayListAssumption, ArrayInv, [ArrayNext]_arrayVars
  PROVE  ArrayInv' /\ [Abstract!Next]_Elements
<1>1. len \in Nat /\ Len(Elements) = len
  BY ElementsAre DEF ArrayInv
<1>2. ASSUME NEW i \in 0..len, NEW o \in Objects, Add(i, o)
      PROVE  ArrayInv' /\ Abstract!Next
  BY <1>1, <1>2, AddInserts DEF Abstract!Next
<1>3. ASSUME NEW i \in 0..len, NEW o \in Objects, Set(i, o)
      PROVE  ArrayInv' /\ Abstract!Next
  BY <1>1, <1>3, SetReplaces DEF Abstract!Next
<1>4. ASSUME NEW i \in 0..(len - 1), Removed(i)
      PROVE  ArrayInv' /\ Abstract!Next
  <2>1. i \in 0..len
    BY <1>1
  <2> QED
    BY <1>1, <1>4, <2>1, RemovedTakesOut DEF Abstract!Next
<1>5. ASSUME NEW i \in 0..len, RemoveAt(i) PROVE ArrayInv' /\ Abstract!Next
  BY <1>4, <1>5 DEF RemoveAt
<1>6. ASSUME NEW o \in Objects, RemoveObject(o) PROVE ArrayInv' /\ [Abstract!Next]_Elements
  <2> DEFINE same == {i \in 0..(len - 1) : data[i] = o}
  <2>1. CASE same = {}
    <3>1. UNCHANGED <<data, len, arrayCapacity>>
      BY <1>6, <2>1 DEF RemoveObject
    <3> QED
      BY <3>1 DEF ArrayInv, RestIsZero, Elements
  <2>2. CASE same # {}
    <3>1. PICK i : i = (CHOOSE j \in same : \A k \in same : j <= k)
      OBVIOUS
    <3>2. Removed(i)
      BY <1>6, <2>2, <3>1 DEF RemoveObject
    <3>3. same \subseteq Nat
      BY <1>1
    <3>4. \E j \in same : \A k \in same : j <= k
      <4> HIDE DEF same
      <4> QED
        BY <2>2, <3>3, LeastOf
    <3>5. i \in same
      <4> HIDE DEF same
      <4> QED
        BY <3>1, <3>4
    <3> QED
      BY <1>4, <3>2, <3>5
  <2> QED
    BY <2>1, <2>2
<1>7. CASE ClearArray
  <2>1. Elements' = <<>> /\ len' = 0 /\ arrayCapacity' = 0 /\ data' = [i \in {} |-> Null]
    BY <1>7 DEF ClearArray, Elements, NoData
  <2>2. 0..(0 - 1) = {}
    OBVIOUS
  <2> QED
    BY <2>1, <2>2 DEF ArrayInv, RestIsZero, Abstract!Next, Abstract!Clear
<1>8. CASE Clone
  <2>1. len' = len /\ arrayCapacity' = len /\ data' = [i \in 0..(len - 1) |-> data[i]]
    BY <1>1, <1>8 DEF Clone, Realloc
  <2>2. \A i \in 0..(len - 1) : data'[i] = data[i] /\ data[i] \in Objects
    BY <2>1 DEF ArrayInv
  <2>3. Elements' = Elements
    <3>1. \A k \in 1..len : k - 1 \in 0..(len - 1)
      BY <1>1
    <3> QED
      BY <2>1, <2>2, <3>1 DEF Elements
  <2>4. RestIsZero'
    BY <1>1, <2>1 DEF RestIsZero
  <2> QED
    BY <1>1, <2>1, <2>2, <2>3, <2>4 DEF ArrayInv
<1>9. CASE UNCHANGED arrayVars
  BY <1>9 DEF arrayVars, ArrayInv, RestIsZero, Elements
<1> QED
  BY <1>2, <1>3, <1>5, <1>6, <1>7, <1>8, <1>9 DEF ArrayNext

LEMMA ArrayStart ==
  ASSUME ArrayInit PROVE ArrayInv /\ Abstract!Init
<1>1. 0..(0 - 1) = {} /\ len = 0 /\ arrayCapacity = 0 /\ data = [i \in {} |-> Null]
  BY DEF ArrayInit, NoData
<1>2. Elements = <<>>
  BY <1>1 DEF Elements
<1> QED
  BY <1>1, <1>2 DEF ArrayInv, RestIsZero, Abstract!Init

(* grow() always finds, or makes, the cell that add() writes - the         *)
(* assert(len < capacity) of tiny.h holds however often the array was cut  *)
(* to its length - and behind the length all is zero.                      *)
THEOREM ArrayListHasRoom ==
  ASSUME ArrayListAssumption
  PROVE  ArraySpec => [](RoomToAdd /\ RestIsZero)
<1>1. ArrayInit => ArrayInv
  BY ArrayStart
<1>2. ArrayInv /\ [ArrayNext]_arrayVars => ArrayInv'
  BY ArrayStep
<1>3. ArrayInv => RoomToAdd /\ RestIsZero
  <2>1. ASSUME ArrayInv PROVE len < GrownTo
    <3>1. len \in Nat /\ GrownTo \in Nat /\ len + 1 <= GrownTo
      BY <2>1, GrownIs DEF ArrayInv
    <3> QED
      BY <3>1
  <2> QED
    BY <2>1 DEF RoomToAdd, ArrayInv
<1> QED
  BY <1>1, <1>2, <1>3, PTL DEF ArraySpec

(* An ArrayList, of any length and through any growing and shrinking, is a *)
(* sequence of objects that are inserted, replaced and removed.            *)
THEOREM ArrayListIsSequence ==
  ASSUME ArrayListAssumption
  PROVE  ArraySpec => IsSequence
<1>1. ArrayInit => ArrayInv /\ Abstract!Init
  BY ArrayStart
<1>2. ArrayInv /\ [ArrayNext]_arrayVars => ArrayInv' /\ [Abstract!Next]_Elements
  BY ArrayStep
<1> QED
  BY <1>1, <1>2, PTL DEF ArraySpec, IsSequence, Abstract!Spec
=============================================================================
