SPECIFICATION Spec
CONSTANTS
  a = a
  b = b
  None = None
  Data <- MCData
  Values <- MCValues
  Worlds <- MCWorlds
INVARIANT CacheAgrees
PROPERTY TransactionsAreAtomic
CHECK_DEADLOCK FALSE
