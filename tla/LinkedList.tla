----------------------------- MODULE LinkedList -----------------------------
(***************************************************************************)
(* LinkedList of inc/tiny.h, entry by entry: a circular list that is       *)
(* linked both ways, and its fail-fast Iterator.                           *)
(***************************************************************************)
EXTENDS Naturals, Sequences, FiniteSets

CONSTANTS
  Entries,      \* memory for Entry objects
  Objects,      \* objects by what equals() compares
  MaxModified,  \* bound: modifications
  Null

LinkedListAssumption ==
  /\ Null \notin Entries /\ IsFiniteSet(Entries) /\ MaxModified \in Nat

VARIABLES
  head, next, prev, data,
  count, modified,
  iter,     \* an Iterator, or Null
  stopped   \* its assertion has failed

vars == <<head, next, prev, data, count, modified, iter, stopped>>

Init ==
  /\ head = Null
  /\ next = [e \in Entries |-> Null]
  /\ prev = [e \in Entries |-> Null]
  /\ data = [e \in Entries |-> Null]
  /\ count = 0 /\ modified = 0
  /\ iter = Null
  /\ stopped = FALSE

(* getEntry(): i steps from head.                                          *)
EntryAt[i \in Nat] == IF i = 0 THEN head ELSE next[EntryAt[i - 1]]
Used == {EntryAt[i] : i \in 0..(count - 1)}
Modify == ~stopped /\ modified < MaxModified /\ modified' = modified + 1

(* The new entry e goes in front of p.                                     *)
LinkBefore(e, p, o) ==
  /\ next' = [next EXCEPT ![e] = p, ![prev[p]] = e]
  /\ prev' = [prev EXCEPT ![e] = prev[p], ![p] = e]
  /\ data' = [data EXCEPT ![e] = o]
  /\ count' = count + 1

(* add(o)                                                                  *)
Append1(e, o) ==
  /\ Modify
  /\ e \notin Used
  /\ IF head = Null
     THEN /\ head' = e
          /\ next' = [next EXCEPT ![e] = e]
          /\ prev' = [prev EXCEPT ![e] = e]
          /\ data' = [data EXCEPT ![e] = o]
          /\ count' = 1
     ELSE LinkBefore(e, head, o) /\ UNCHANGED head
  /\ UNCHANGED <<iter, stopped>>

(* Mutant: what is inserted in front of head does not become the head.     *)
Insert_KeepsHead(before, e, o) ==
  /\ Modify
  /\ e \notin Used
  /\ before \in 0..(count - 1)
  /\ LinkBefore(e, EntryAt[before], o)
  /\ UNCHANGED <<head, iter, stopped>>

(* add(before, o), in front of an entry.                                   *)
Insert(before, e, o) ==
  /\ Modify
  /\ e \notin Used
  /\ before \in 0..(count - 1)
  /\ LinkBefore(e, EntryAt[before], o)
  /\ head' = IF EntryAt[before] = head THEN e ELSE head
  /\ UNCHANGED <<iter, stopped>>

(* clear()                                                                 *)
Clear ==
  /\ Modify
  /\ head' = Null /\ count' = 0
  /\ UNCHANGED <<next, prev, data, iter, stopped>>

(* removeEntry()                                                           *)
RemoveEntry(e) ==
  \/ count = 1 /\ Clear
  \/ /\ count > 1
     /\ Modify
     /\ head' = IF e = head THEN next[e] ELSE head
     /\ prev' = [prev EXCEPT ![next[e]] = prev[e]]
     /\ next' = [next EXCEPT ![prev[e]] = next[e]]
     /\ count' = count - 1
     /\ UNCHANGED <<data, iter, stopped>>

RemoveAt(ix) == ix \in 0..(count - 1) /\ RemoveEntry(EntryAt[ix])

(* remove(o): the first entry that equals o.                               *)
Remove(o) ==
  \E i \in 0..(count - 1) :
    /\ data[EntryAt[i]] = o
    /\ \A k \in 0..(i - 1) : data[EntryAt[k]] # o
    /\ RemoveEntry(EntryAt[i])

(* set() is no modification.                                               *)
Set(i, o) ==
  /\ ~stopped
  /\ i \in 0..(count - 1)
  /\ data' = [data EXCEPT ![EntryAt[i]] = o]
  /\ UNCHANGED <<head, next, prev, count, modified, iter, stopped>>

---------------------------------------------------------------------------
Iterate ==
  /\ ~stopped
  /\ iter = Null
  /\ iter' = [mc |-> modified, e |-> head, pos |-> 0, returned |-> <<>>]
  /\ UNCHANGED <<head, next, prev, data, count, modified, stopped>>

(* next() after hasNext()                                                  *)
IterNext ==
  /\ ~stopped
  /\ iter # Null
  /\ iter.pos < count
  /\ IF iter.mc # modified
     THEN stopped' = TRUE /\ UNCHANGED iter
     ELSE /\ iter' = [iter EXCEPT !.e = next[iter.e], !.pos = @ + 1,
                                  !.returned = Append(@, iter.e)]
          /\ UNCHANGED stopped
  /\ UNCHANGED <<head, next, prev, data, count, modified>>

(* The loop is left, at its end or before.                                 *)
EndLoop ==
  /\ ~stopped
  /\ iter # Null
  /\ iter' = Null
  /\ UNCHANGED <<head, next, prev, data, count, modified, stopped>>

Done == (stopped \/ modified = MaxModified) /\ UNCHANGED vars

Next ==
  \/ \E e \in Entries, o \in Objects :
       Append1(e, o) \/ \E i \in 0..(count - 1) : Insert(i, e, o)
  \/ \E i \in 0..(count - 1) : RemoveAt(i) \/ \E o \in Objects : Set(i, o)
  \/ \E o \in Objects : Remove(o)
  \/ Clear \/ Iterate \/ IterNext \/ EndLoop
  \/ Done

Spec == Init /\ [][Next]_vars

---------------------------------------------------------------------------
(* From head, count entries are linked in a ring both ways.                *)
Ring ==
  /\ (head = Null) <=> (count = 0)
  /\ count > 0 => /\ EntryAt[count] = head
                  /\ Cardinality(Used) = count
                  /\ \A e \in Used : prev[next[e]] = e /\ next[prev[e]] = e

(* An iterator that may go on stands on an entry of the list; one that has *)
(* come to its end without an assertion has returned all of them in order. *)
IteratorFollows ==
  (iter # Null /\ ~stopped /\ iter.mc = modified) =>
    /\ iter.pos <= count
    /\ iter.pos < count => iter.e = EntryAt[iter.pos]
    /\ \A k \in 1..iter.pos : iter.returned[k] = EntryAt[k - 1]

Elements == [i \in 1..count |-> data[EntryAt[i - 1]]]
Abstract == INSTANCE ObjectList WITH list <- Elements

(* Every operation does to the sequence what its name says, at the place   *)
(* it was told: also in front of the head, also the only entry.            *)
IsSequence ==
  [][/\ \A e \in Entries, o \in Objects :
          /\ Append1(e, o) => Abstract!Insert(count, o)
          /\ \A i \in 0..(count - 1) : Insert(i, e, o) => Abstract!Insert(i, o)
     /\ \A i \in 0..(count - 1) :
          /\ RemoveAt(i) => Abstract!RemoveAt(i)
          /\ \A o \in Objects : Set(i, o) => Abstract!Set(i, o)
     /\ \A o \in Objects : Remove(o) =>
          \E i \in 0..(count - 1) : Elements[i + 1] = o /\ Abstract!RemoveAt(i)
     /\ Clear => Abstract!Clear]_vars
=============================================================================
