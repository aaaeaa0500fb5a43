SPECIFICATION Spec
CONSTANTS
  f1 = f1  f2 = f2
  Funcs = {f1, f2}
  BufferBase = 1
  ActionBase = 1
  MaxWrites = 2
  None = None
INVARIANTS CarriesReport KnowsLast QuietAfterSync
CHECK_DEADLOCK FALSE
