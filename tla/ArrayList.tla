----------------------------- MODULE ArrayList ------------------------------
(***************************************************************************)
(* ArrayList of inc/tiny.h, and with bytes for objects ByteArray: an array *)
(* that is allocated anew when it grows or shrinks.                        *)
(***************************************************************************)
EXTENDS Naturals, Sequences, FiniteSets

CONSTANTS
  Objects,  \* objects by what equals() compares
  Null,     \* a cell nobody has written: operator new fills memory with zero
  MaxLen    \* bound: the length

ArrayListAssumption == Null \notin Objects /\ MaxLen \in Nat

VARIABLES
  data,      \* the array: [0..(arrayCapacity - 1) -> Objects \cup {Null}]
  len, arrayCapacity,
  result     \* what the last remove(o) answered

arrayVars == <<data, len, arrayCapacity, result>>

NoData == [i \in {} |-> Null]

ArrayInit == data = NoData /\ len = 0 /\ arrayCapacity = 0 /\ result = TRUE

(* reallocData(): the first len cells, the others zero.                    *)
Realloc(d, l, n) == [i \in 0..(n - 1) |-> IF i < l THEN d[i] ELSE Null]

(* The capacity with which an object is added: there is always one cell    *)
(* more than needed.                                                       *)
GrownTo == IF len + 1 < arrayCapacity THEN arrayCapacity
           ELSE IF arrayCapacity = 0 THEN 4 ELSE arrayCapacity * 2

GrownData == IF GrownTo = arrayCapacity THEN data ELSE Realloc(data, len, GrownTo)

(* add(before, o); add(o) is before = len.                                 *)
Add(before, o) ==
  /\ len < MaxLen
  /\ before \in 0..len
  /\ arrayCapacity' = GrownTo
  /\ data' = [i \in 0..(GrownTo - 1) |->
                IF i = before THEN o
                ELSE IF i \in (before + 1)..len THEN GrownData[i - 1]
                ELSE GrownData[i]]
  /\ len' = len + 1
  /\ UNCHANGED result

Set(i, o) ==
  /\ i \in 0..(len - 1)
  /\ data' = [data EXCEPT ![i] = o]
  /\ UNCHANGED <<len, arrayCapacity, result>>

Shrinks == len - 1 < arrayCapacity \div 2

(* removeAt(): the cells behind move down, the last one becomes null, and  *)
(* the array shrinks to its length if it is less than half full.           *)
Removed(ix) ==
  LET d == [i \in 0..(arrayCapacity - 1) |->
              IF i = len - 1 THEN Null
              ELSE IF i \in ix..(len - 2) THEN data[i + 1]
              ELSE data[i]]
  IN  /\ len' = len - 1
      /\ IF Shrinks
         THEN arrayCapacity' = len - 1 /\ data' = Realloc(d, len - 1, len - 1)
         ELSE data' = d /\ UNCHANGED arrayCapacity

RemoveAt(ix) == ix \in 0..(len - 1) /\ Removed(ix) /\ UNCHANGED result

(* remove(o): the first that equals o.                                     *)
RemoveObject(o) ==
  LET same == {i \in 0..(len - 1) : data[i] = o}
  IN  /\ result' = (same # {})
      /\ IF same = {} THEN UNCHANGED <<data, len, arrayCapacity>>
         ELSE Removed(CHOOSE i \in same : \A k \in same : i <= k)

ClearArray ==
  /\ data' = NoData /\ len' = 0 /\ arrayCapacity' = 0
  /\ UNCHANGED result

(* The program goes on with a clone(), which has no cell to spare.         *)
Clone ==
  /\ data' = Realloc(data, len, len)
  /\ arrayCapacity' = len
  /\ UNCHANGED <<len, result>>

ArrayNext ==
  \/ \E i \in 0..len, o \in Objects : Add(i, o) \/ Set(i, o)
  \/ \E i \in 0..len : RemoveAt(i)
  \/ \E o \in Objects : RemoveObject(o)
  \/ ClearArray \/ Clone

ArraySpec == ArrayInit /\ [][ArrayNext]_arrayVars

---------------------------------------------------------------------------
(* "assert(len < capacity)" behind grow(): the cell that is written is in  *)
(* the array, however often it was shrunk to fit before.                   *)
RoomToAdd == len < GrownTo /\ len <= arrayCapacity

(* What a removal or a growth leaves behind the length is zero: nothing is *)
(* deleted twice.                                                          *)
RestIsZero == \A i \in len..(arrayCapacity - 1) : data[i] = Null

Elements == [i \in 1..len |-> data[i - 1]]
Abstract == INSTANCE ObjectList WITH list <- Elements

(* An ArrayList is a sequence, whatever its capacity goes through.         *)
IsSequence == Abstract!Spec
=============================================================================
