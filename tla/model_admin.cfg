CONSTANTS
  u1 = u1
  User = {u1}
  NoBody = NoBody
  Offered = {{"device"}, {"code"}}
  MaxBackends = 3
  MaxAttempts = 2
  MaxActs = 2
  MaxOpen = 2
  MaxFails = 1
SPECIFICATION FairSpec
CHECK_DEADLOCK FALSE
INVARIANTS ChangesTakeEffect AuthorizedHasToken
PROPERTIES DialogSettles
