\* Every call returns the one symbol of its name, counts are exact.
CONSTANTS
  t1 = t1
  t2 = t2
  t3 = t3
  a = a
  b = b
  Threads <- MCThreads
  Names <- MCNames
  MaxGets = 2
SPECIFICATION Spec
INVARIANTS
  Interned
  RefcountExact
PROPERTIES
  DeletedOnlyUnretained
CHECK_DEADLOCK FALSE
