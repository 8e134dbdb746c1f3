\* Generators that never throw.
CONSTANTS
  r1 = r1
  r2 = r2
  r3 = r3
  g1 = g1
  g2 = g2
  root = root
  None = None
  Readers <- MCReaders
  Gens <- MCGens
  Root = root
  Input <- MCInput
  Length = 3
  BlockSize <- MCBlockSize
  Faulty = {}
  MaxCell = 4
  MaxReads = 2
SPECIFICATION FairSpec
INVARIANTS
  PullExclusive
  NoAbort
PROPERTIES
  PublishedStable
  ImplementsStream
  ReadersFinish
CHECK_DEADLOCK FALSE
