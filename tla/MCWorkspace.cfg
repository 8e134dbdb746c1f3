\* Two threads bind, rebind and read names of a workspace that holds two.
CONSTANTS
  t1 = t1
  t2 = t2
  a = a
  b = b
  c = c
  Threads <- MCThreads
  Names <- MCNames
  Hash <- MCHash
  Start <- MCStart
  MaxBinds = 5
  MaxGets = 1
  MaxPushes = 1
  MaxOps = 3
SPECIFICATION FairSpec
INVARIANTS
  Ordered
  BindVisible
  GetsConsistent
PROPERTIES
  GrowsAtLeaves
  PutsReturn
CHECK_DEADLOCK FALSE
