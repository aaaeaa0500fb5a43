SPECIFICATION FairSpec
CONSTANTS
  r1 = r1  r2 = r2
  Readers = {r1}
  PoolSize = 2
  Iterations = 2
  SeqBound = 3
  MaxPools = 2
  MaxFrames = 3
INVARIANTS TypeOK StableWhileRead WriterFindsBuffer
PROPERTIES NeverBackward Reattaches StopEnds
CHECK_DEADLOCK FALSE
