CONSTANTS
  m1 = m1
  NoBody = NoBody
  Machine = {m1}
  MaxTasks = 2
  MaxMoves = 2
  MaxOpen = 2
  MaxFails = 1
SPECIFICATION ConsoleFairSpec
CHECK_DEADLOCK FALSE
INVARIANTS AnnouncedOncePerSubmission
PROPERTIES FormerTaskStaysAway ResultIsShown
