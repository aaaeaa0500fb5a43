SPECIFICATION FairSpec
CONSTANTS
  f1 = f1  f2 = f2
  Funcs = {f1, f2}
  Modes = {TRUE, FALSE}
  None = None
INVARIANTS TypeOK TokenOwned JoinedBeforeCreate QuietAfterDisconnect
PROPERTIES CallsReturn Reconnects
CHECK_DEADLOCK FALSE
