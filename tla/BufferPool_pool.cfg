SPECIFICATION FairSpec
CONSTANTS
  Threads = {t1, t2, t3}
  N = 2
INVARIANTS
  TypeOK
  NoLostBuffer
  ExclusiveUnlessOverlap
  OwnBytesUnlessOverlap
PROPERTIES
  BufferGranted
