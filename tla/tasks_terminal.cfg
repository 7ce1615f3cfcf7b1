CONSTANTS
  None = None
  t1 = t1
  c1 = c1
  Task = {t1}
  Conn = {c1}
  MaxInFlight = 1
  MaxChunks = 0
  MaxRestarts = 0
SPECIFICATION Spec
PROPERTY TerminalIsFinal
CHECK_DEADLOCK FALSE
