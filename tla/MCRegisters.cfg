\* A Ref and a plug set by two threads while the audio thread uses them.
CONSTANTS
  t1 = t1
  t2 = t2
  o1 = o1
  o2 = o2
  o3 = o3
  Number = Number
  Null = Null
  Threads <- MCThreads
  Objects <- MCObjects
  Length <- MCLength
  BlockSize = 2
  MaxGets = 2
  MaxSets = 2
  MaxPulls = 3
SPECIFICATION Spec
INVARIANTS
  CountsExact
  PlugHasLastInput
  InputsInOrder
CHECK_DEADLOCK FALSE
