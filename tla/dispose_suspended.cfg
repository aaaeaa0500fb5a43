SPECIFICATION FairSpec
CONSTANTS
  a1 = a1  a2 = a2  a3 = a3  s1 = s1  c1 = c1  c2 = c2
  Actions = {a1}
  Syncers = {}
  Tokens = {}
  Interval <- NoInterval
  Count <- NoCount
  Suspendable = TRUE
  Disposals = {"external"}
  None = None
PROPERTY DisposeReleasesWaiters
CHECK_DEADLOCK FALSE
