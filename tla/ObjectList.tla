----------------------------- MODULE ObjectList -----------------------------
(* What ArrayList and LinkedList are to their users: a sequence of objects *)
(* that are inserted, replaced and removed at a position.                  *)
EXTENDS Naturals, Sequences

CONSTANT Objects

VARIABLE list

Init == list = <<>>

(* The new object is at position i, from 0, and what was there behind it.  *)
Insert(i, o) ==
  /\ i \in 0..Len(list)
  /\ list' = SubSeq(list, 1, i) \o <<o>> \o SubSeq(list, i + 1, Len(list))

Set(i, o) == i \in 0..(Len(list) - 1) /\ list' = [list EXCEPT ![i + 1] = o]

RemoveAt(i) ==
  /\ i \in 0..(Len(list) - 1)
  /\ list' = SubSeq(list, 1, i) \o SubSeq(list, i + 2, Len(list))

Clear == list' = <<>>

Next ==
  \/ \E i \in 0..Len(list), o \in Objects : Insert(i, o) \/ Set(i, o)
  \/ \E i \in 0..Len(list) : RemoveAt(i)
  \/ Clear

Spec == Init /\ [][Next]_list
=============================================================================
