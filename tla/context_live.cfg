SPECIFICATION FairSpec
CONSTANTS
  a1 = a1  a2 = a2  a3 = a3  s1 = s1  c1 = c1  c2 = c2
  Actions = {a1}
  Syncers = {}
  Tokens = {c1, c2}
  Interval <- TwoIntervals
  Count <- TwoCounts
  Suspendable = FALSE
  Disposals = {"self"}
  None = None
INVARIANTS TypeOK IdleIsHonest QuietAfterUnregister ExhaustedStaysOut
PROPERTIES ActionsFinish TimersFire
CHECK_DEADLOCK FALSE
