SPECIFICATION Spec
CONSTANTS
  a1 = a1  a2 = a2  a3 = a3  s1 = s1  c1 = c1  c2 = c2
  Actions = {a1, a2, a3}
  Syncers = {s1}
  Tokens = {}
  Interval <- NoInterval
  Count <- NoCount
  Suspendable = TRUE
  Disposals = {"external", "self"}
  None = None
INVARIANTS QueuedOnce NoneAbandoned SyncFlushes
PROPERTY KeepsPromise
CHECK_DEADLOCK FALSE
