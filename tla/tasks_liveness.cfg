CONSTANTS
  None = None
  t1 = t1
  c1 = c1
  Task = {t1}
  Conn = {c1}
  MaxInFlight = 2
  MaxChunks = 1
  MaxRestarts = 1
SPECIFICATION FairSpec
PROPERTIES EveryCallReturns BreakEndsTasks
CHECK_DEADLOCK FALSE
