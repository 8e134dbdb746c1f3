\* The fourth item of the first generator throws (errNotFound from a comma).
CONSTANTS
  r1 = r1
  r2 = r2
  r3 = r3
  g1 = g1
  g2 = g2
  root = root
  None = None
  Readers <- MCReaders
  Gens <- MCGens
  Root = root
  Input <- MCInput
  Length = 4
  BlockSize <- MCBlockSize
  Faulty <- MCFaulty
  MaxCell = 7
  MaxReads = 2
SPECIFICATION FairSpec
INVARIANTS
  NoOrphanLock
PROPERTIES
  ReadersReturn
CHECK_DEADLOCK FALSE
