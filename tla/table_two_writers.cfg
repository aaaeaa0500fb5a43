SPECIFICATION Spec
CONSTANTS
  r1 = r1  r2 = r2  w1 = w1  w2 = w2
  Rows = {r1}
  Key <- KeyOf
  Events = {}
  Writers = {w1, w2}
  TableCallbacks = {}
  RowCallbacks = {d1}
  Values = {0, 1}
  Zero = 0
  Priorities = {0, 1}
  Resubscribe = FALSE
  None = None
INVARIANT AlwaysCaughtUp
