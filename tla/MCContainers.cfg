SPECIFICATION Spec
CONSTANTS
  o1 = o1
  o2 = o2
  e1 = e1
  e2 = e2
  e3 = e3
  j1 = j1
  j2 = j2
  j3 = j3
  t1 = t1
  t2 = t2
  Worker = Worker
  None = None
  Null = None
  NoJob = None
  Keys <- MCKeys
  Vals <- MCObjects
  Hash <- MCHash
  Uses <- MCUses
  Objects <- MCObjects
  MaxLen = 6
  Jobs <- MCJobs
  Adders <- MCAdders
INVARIANTS TableIsRight FailFast
PROPERTIES IsMap IsQueue ContainersRefine
