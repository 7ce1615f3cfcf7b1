CONSTANTS
  t1 = t1
  c1 = c1
  c2 = c2
  None = None
  Task = {t1}
  Conn = {c1, c2}
  MaxInFlight = 2
  MaxChunks = 1
  MaxRestarts = 0
SPECIFICATION Spec
SYMMETRY Symmetry
CHECK_DEADLOCK FALSE
INVARIANTS TypeOK NothingLeftBehind ResultWakes RowIsTheExecution AtMostOneExecution AnswerStands
PROPERTIES LifecycleSpec FinalOnceSettled
