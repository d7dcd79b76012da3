------------------------------ MODULE MCStore -------------------------------
(* SQLiteProvider with two images in four worlds: every operation without  *)
(* faults; locks and crashes; bumpStackItems without faults; bumpStackItems *)
(* with them.                                                              *)
EXTENDS SQLiteProvider

CONSTANTS g1, g2

MCGuids == {g1, g2}

Atomic == Operations \ {"bumpStackItems"}

Orderly == [ops |-> Atomic, busy |-> {}, crashes |-> FALSE]

Faults ==
  [ops |-> Atomic \ {"getFilename", "remove", "updateInvalid"},
   busy |-> {"ADD", "STACK_GET", "STACK_ADD", "UPDATE_BLOB", "commit"},
   crashes |-> TRUE]

Bump ==
  [ops |-> {"add", "remove", "pushStackItem", "bumpStackItems", "popStackItem"},
   busy |-> {}, crashes |-> FALSE]

BumpFaults ==
  [ops |-> {"add", "remove", "pushStackItem", "bumpStackItems"},
   busy |-> {"ADD", "STACK_REMOVE", "commit"}, crashes |-> TRUE]

AllWorlds == {Orderly, Faults, Bump, BumpFaults}
BumpWorld == {Bump}
=============================================================================
