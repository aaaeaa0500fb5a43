SPECIFICATION FairSpec
CONSTANTS
  s0 = s0  s1 = s1  s2 = s2  s3 = s3  s4 = s4  t1 = t1  t2 = t2
  States = {s0, s1}
  First = s0
  Timed = {s1}
  EndStates = {}
  EventOps = {"go"}
  EnterOps = {}
  TimeoutOps = {"late"}
  Transitions <- Sample
  Movings <- SampleUse
  Context = Context
  Threads = {t1, t2}
  None = None
PROPERTY EveryMoveIsEntered
CHECK_DEADLOCK FALSE
