SPECIFICATION Spec
CONSTANTS
  NoDb = NoDb
  Dbs = {d1, d2, d3}
  Images = {i1, i2}
  Reads = {r1, r2}
  Patient = TRUE
  p1 = p1
  p2 = p2
  p3 = p3
  None = None
  Procs <- MCProcs
  Pages <- MCPages
  Worlds <- MCWorlds
  Scripts <- MCScripts
  MaxHistory = 4
  MaxNoise = 1
  MaxVersion = 2
INVARIANTS AnswersInOrder NothingUsesDeleted WriterHoldsLocks
PROPERTIES RefinesAtomicFile EverybodyFinishes
CHECK_DEADLOCK FALSE
