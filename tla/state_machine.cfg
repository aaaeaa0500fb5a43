SPECIFICATION FairSpec
CONSTANTS
  s0 = s0  s1 = s1  s2 = s2  s3 = s3  s4 = s4  t1 = t1  t2 = t2
  States = {s0, s1, s2, s3, s4}
  First = s0
  Timed = {s0, s1, s4}
  EndStates = {s3, s4}
  EventOps = {"go", "skip"}
  EnterOps = {"at once"}
  TimeoutOps = {"late"}
  Transitions <- Path
  Movings <- EitherUse
  Context = Context
  Threads = {t1, t2}
  None = None
INVARIANTS PausedIsQuiet TimerMatchesState
PROPERTIES MoveIsEntered JobsEnd
CHECK_DEADLOCK FALSE
