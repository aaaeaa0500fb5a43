SPECIFICATION FairSpec
CONSTANTS
  exp = exp  imp = imp  tab = tab
  Agents = {exp, imp}
  Tables = {tab}
  NumRows = 1
  TableOf <- OneTable
  Exporter <- FromExp
  MaxWrites = 1
  MaxStarts = 3
  MaxQueue = 1
  Watchful = {imp}
INVARIANTS SyncedAfterFailure AgreeWhenQuiet
PROPERTY Synchronises
CHECK_DEADLOCK FALSE
