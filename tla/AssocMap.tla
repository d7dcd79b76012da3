------------------------------ MODULE AssocMap ------------------------------
(* What a HashMap is to its users: a finite function from keys to values.  *)
EXTENDS Naturals

CONSTANTS Keys, Vals

VARIABLE map

Init == map = [k \in {} |-> k]

Put(k, v) ==
  map' = [l \in DOMAIN map \cup {k} |-> IF l = k THEN v ELSE map[l]]

Remove(k) ==
  /\ k \in DOMAIN map
  /\ map' = [l \in DOMAIN map \ {k} |-> map[l]]

Clear == map' = [k \in {} |-> k]

Next ==
  \/ \E k \in Keys, v \in Vals : Put(k, v)
  \/ \E k \in Keys : Remove(k)
  \/ Clear

Spec == Init /\ [][Next]_map
=============================================================================
