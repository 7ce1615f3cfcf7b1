CONSTANTS
  b1 = b1
  b2 = b2
  n1 = n1
  n2 = n2
  n3 = n3
  NoBody = NoBody
  Browser = {b1, b2}
  Name = {n1, n2, n3}
  Open = TRUE
  MaxRows = 3
  MaxTokens = 3
  MaxActs = 3
  MaxOpen = 3
  MaxFails = 1
SYMMETRY Perms
SPECIFICATION Spec
CHECK_DEADLOCK FALSE
INVARIANTS AdminRemains ShownIsSignedIn
