CONSTANTS
  u1 = u1
  NoBody = NoBody
  User = {u1}
  Me = u1
  MaxItems = 2
  MaxActs = 3
  MaxOpen = 2
  MaxFails = 1
SPECIFICATION Spec
CHECK_DEADLOCK FALSE
INVARIANTS QuietPageIsRight SaveKeepsTheRest
