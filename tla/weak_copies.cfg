SPECIFICATION FairSpec
CONSTANTS
  t1 = t1  t2 = t2  p1 = p1  p2 = p2
  Threads = {t1, t2}
  Ptrs = {p1, p2}
  Owners = {t1}
  Copies <- CrossCopies
  None = None
INVARIANTS TypeOK DeletedOnce StrongMeansAlive WeakNeverDangles
PROPERTY DestructionEnds
CHECK_DEADLOCK FALSE
