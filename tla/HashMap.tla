------------------------------ MODULE HashMap -------------------------------
(***************************************************************************)
(* HashMap of inc/tiny.h, on which HashSet is built: a table of chains     *)
(* that grows and shrinks, and its fail-fast EntryIterator.                *)
(*                                                                         *)
(* The order inside a chain is nobody's business but the iterator's, which *)
(* may find any; a chain is therefore the set of its entries.  Objects are *)
(* their values, except that put() looks whether it was given the very     *)
(* object that is in the map already: that is PutSame.                     *)
(***************************************************************************)
EXTENDS Integers, FiniteSets

CONSTANTS
  Keys, Vals,
  Hash,         \* hash(key), not negative
  None,
  Uses          \* the uses a behaviour may make of the map

\* One use differs from the next in the keys and the values it puts, in what
\* its loops over the map do besides walking it, and in the bound of its
\* modifications.
ASSUME HashMapAssumption ==
  /\ Hash \in [Keys -> Nat]
  /\ None \notin [key : Keys, val : Vals]
  /\ None \notin [mc : Nat, made : Nat, pos : Nat,
                  i : [key : Keys, val : Vals] \union {None},
                  returned : SUBSET [key : Keys, val : Vals]]
  /\ Uses \subseteq [keys : SUBSET Keys, vals : SUBSET Vals,
                     habits : SUBSET {"putSame", "leaveEarly"}, limit : Nat]

VARIABLES
  use,      \* what this behaviour does with the map
  count, capacity, modified,
  entries,  \* entries[h], for 0 <= h < capacity: the chain of h
  built,    \* how often all the Entry objects were made anew
  iter,     \* an EntryIterator, or None
  freed,    \* entries in a chain that have been deleted
  stopped   \* a check() has failed

mapVars == <<use, count, capacity, modified, entries, built, iter, freed, stopped>>

Entry == [key : Keys, val : Vals]
Contents == UNION {entries[h] : h \in 0..(capacity - 1)}
Pair(k, v) == [key |-> k, val |-> v]

MapInit ==
  /\ use \in Uses
  /\ count = 0 /\ capacity = 0 /\ modified = 0
  /\ entries = [h \in {} |-> {}]
  /\ built = 0
  /\ iter = None
  /\ freed = {}
  /\ stopped = FALSE

(* After a failed check() and after the use of a deleted entry the program *)
(* has no behaviour that is worth following.                               *)
Running == ~stopped /\ freed = {}

(* Mutant: an entry stays in the chain of its old index.                   *)
Rehash_KeepsIndex(n) ==
  [h \in 0..(n - 1) |-> {x \in Contents : Hash[x.key] % capacity = h}]

(* reallocData(n): every entry is made anew in the chain its hash now      *)
(* selects.                                                                *)
Rehash(n) == [h \in 0..(n - 1) |-> {x \in Contents : Hash[x.key] % n = h}]

(* The capacity put() goes on with.                                        *)
Grown ==
  IF capacity < ((count + 1) * 4) \div 3
  THEN IF capacity = 0 THEN 5 ELSE capacity * 2
  ELSE capacity

(* The table put() goes on with.                                           *)
Table == IF Grown = capacity THEN entries ELSE Rehash(Grown)

Build(n) == /\ capacity' = n
            /\ built' = IF n = capacity THEN built ELSE built + 1

(* getEntry(): the entries of k in the table t of n chains.                *)
Found(t, n, k) == {x \in t[Hash[k] % n] : x.key = k}

(* Mutant: an entry that put() adds is no modification.                    *)
PutNew_Uncounted(k, v) ==
  /\ Running
  /\ Found(Table, Grown, k) = {}
  /\ entries' = [Table EXCEPT ![Hash[k] % Grown] = @ \cup {Pair(k, v)}]
  /\ Build(Grown)
  /\ count' = count + 1
  /\ UNCHANGED <<use, modified, iter, freed, stopped>>

(* put() of a key that is not in the map.                                  *)
PutNew(k, v) ==
  /\ Running /\ modified < use.limit
  /\ Found(Table, Grown, k) = {}
  /\ entries' = [Table EXCEPT ![Hash[k] % Grown] = @ \cup {Pair(k, v)}]
  /\ Build(Grown)
  /\ count' = count + 1
  /\ modified' = modified + 1
  /\ UNCHANGED <<use, iter, freed, stopped>>

(* put() of another value for a key.                                       *)
PutOver(k, v) ==
  /\ Running /\ modified < use.limit
  /\ Found(Table, Grown, k) # {}
  /\ entries' = [Table EXCEPT ![Hash[k] % Grown] =
                   (@ \ Found(Table, Grown, k)) \cup {Pair(k, v)}]
  /\ Build(Grown)
  /\ modified' = modified + 1
  /\ UNCHANGED <<use, count, iter, freed, stopped>>

(* put() of the value object that is there: "not modified", but the table  *)
(* may have grown by then.                                                 *)
PutSame(k) ==
  /\ Running
  /\ iter = None \/ "putSame" \in use.habits
  /\ Found(Table, Grown, k) # {}
  /\ entries' = Table
  /\ Build(Grown)
  /\ UNCHANGED <<use, count, modified, iter, freed, stopped>>

(* clear() leaves no table.                                                *)
Empty == /\ entries' = [h \in {} |-> {}]
         /\ capacity' = 0
         /\ built' = built + 1

(* shrink(), with what remove() leaves in the map.                         *)
Shrunk ==
  LET n == (capacity * 3) \div 4
  IN  IF n < count - 1 THEN count - 1 ELSE n

(* Mutant: the entries behind the removed one go with it.                  *)
Remove_Tail(k) ==
  /\ Running /\ modified < use.limit
  /\ count > 0
  /\ Found(entries, capacity, k) # {}
  /\ count' = count - 1
  /\ entries' = [entries EXCEPT ![Hash[k] % capacity] = {}]
  /\ modified' = modified + 1
  /\ UNCHANGED <<use, capacity, built, iter, freed, stopped>>

(* remove(): the entry leaves its chain, and then the table may shrink, or *)
(* be cleared with the last one.                                           *)
Remove(k) ==
  /\ Running /\ modified < use.limit
  /\ count > 0
  /\ Found(entries, capacity, k) # {}
  /\ count' = count - 1
  /\ LET gone == Found(entries, capacity, k)
     IN  IF capacity > 7 /\ count - 1 < capacity \div 3
         THEN IF count = 1
              THEN Empty /\ modified' = modified + 2
              ELSE /\ entries' = [h \in 0..(Shrunk - 1) |->
                                    {x \in Contents \ gone : Hash[x.key] % Shrunk = h}]
                   /\ Build(Shrunk)
                   /\ modified' = modified + 1
         ELSE /\ entries' = [entries EXCEPT ![Hash[k] % capacity] = @ \ gone]
              /\ modified' = modified + 1
              /\ UNCHANGED <<capacity, built>>
  /\ UNCHANGED <<use, iter, freed, stopped>>

Clear ==
  /\ Running /\ modified < use.limit
  /\ Empty
  /\ count' = 0
  /\ modified' = modified + 1
  /\ UNCHANGED <<use, iter, freed, stopped>>

---------------------------------------------------------------------------
(* nextPos(): where an iterator may stand after the entries in done.       *)
NextPos(pos, done) ==
  LET here  == IF pos \in 0..(capacity - 1) THEN entries[pos] \ done ELSE {}
      later == {h \in (pos + 1)..(capacity - 1) : entries[h] # {}}
      first == {h \in later : \A g \in later : h <= g}
  IN  IF here # {} THEN [pos : {pos}, i : here]
      ELSE IF later # {} THEN UNION {[pos : {h}, i : entries[h]] : h \in first}
      ELSE {[pos |-> capacity, i |-> None]}

Iterate ==
  /\ Running
  /\ iter = None
  /\ \E n \in NextPos(-1, {}) :
       iter' = [mc |-> modified, made |-> built, pos |-> n.pos, i |-> n.i,
                returned |-> {}]
  /\ UNCHANGED <<use, count, capacity, modified, entries, built, freed, stopped>>

(* nextEntry(), up to a failing check.                                     *)
NextEntry ==
  /\ Running
  /\ iter # None /\ iter.i # None
  /\ IF iter.mc # modified
     THEN stopped' = TRUE /\ UNCHANGED iter
     ELSE /\ \E n \in NextPos(iter.pos, iter.returned \cup {iter.i}) :
               iter' = [iter EXCEPT !.pos = n.pos, !.i = n.i,
                                    !.returned = @ \cup {iter.i}]
          /\ UNCHANGED stopped
  /\ UNCHANGED <<use, count, capacity, modified, entries, built, freed>>

(* The loop ends; ~EntryIterator() deletes what the iterator stands on.    *)
EndLoop ==
  /\ Running
  /\ iter # None
  /\ iter.i # None => "leaveEarly" \in use.habits
  /\ freed' = {iter.i} \intersect Contents
  /\ iter' = None
  /\ UNCHANGED <<use, count, capacity, modified, entries, built, stopped>>

Done == (~Running \/ modified >= use.limit) /\ UNCHANGED mapVars

MapNext ==
  \/ \E k \in use.keys, v \in use.vals : PutNew(k, v) \/ PutOver(k, v)
  \/ \E k \in use.keys : PutSame(k) \/ Remove(k)
  \/ Clear \/ Iterate \/ NextEntry \/ EndLoop
  \/ Done

MapSpec == MapInit /\ [][MapNext]_mapVars

---------------------------------------------------------------------------
HashMapTypeOK ==
  /\ use \in Uses
  /\ count \in Nat /\ capacity \in Nat /\ modified \in Nat /\ built \in Nat
  /\ entries \in [0..(capacity - 1) -> SUBSET Entry]
  /\ iter \in {None} \union [mc : 0..modified, made : 0..built, pos : Nat,
                             i : Entry \union {None}, returned : SUBSET Entry]
  /\ freed \subseteq Entry
  /\ stopped \in BOOLEAN

(* Every entry is in the chain where it will be looked for, whatever the   *)
(* table has been through since it was put there.                          *)
Placed ==
  \A h \in 0..(capacity - 1) : \A x \in entries[h] : Hash[x.key] % capacity = h

(* No key is there twice.                                                  *)
KeysUnique == \A x, y \in Contents : x.key = y.key => x = y

(* count counts the entries, which never outnumber the chains: "assert     *)
(* (count <= capacity)" in reallocData().                                  *)
CountIsRight == count = Cardinality(Contents) /\ count <= capacity

(* The table is one in which get() finds what put() has put, and nothing   *)
(* else, through every growing and shrinking.                              *)
TableIsRight == HashMapTypeOK /\ Placed /\ KeysUnique /\ CountIsRight

(* Loops do nothing to the map that its iterator does not notice, and end  *)
(* where it ends.                                                          *)
NoPutSame == "putSame" \notin use.habits
NoLeaving == "leaveEarly" \notin use.habits

(* An iterator whose check will pass stands on an entry that exists, and   *)
(* that was not there before; and no entry is deleted that the map holds.  *)
FailFast ==
  /\ NoPutSame =>
       (iter # None /\ iter.i # None /\ iter.mc = modified /\ Running
          => iter.made = built /\ iter.i \in Contents \ iter.returned)
  /\ NoLeaving => freed = {}

(* A walk that comes to its end without a failing check has returned what  *)
(* the map then holds, each entry once.                                    *)
WalkReturnsAll ==
  [][NoPutSame /\ iter # None /\ iter.i # None /\ iter' # None /\ iter'.i = None
       => iter'.returned = Contents]_mapVars

(* A HashMap is a finite function from keys to values: put() changes it at *)
(* one key, remove() at one, and growing and shrinking not at all.         *)
Map == INSTANCE AssocMap
  WITH map <- [k \in {x.key : x \in Contents} |->
                 (CHOOSE x \in Contents : x.key = k).val]
IsMap == Map!Spec
=============================================================================
