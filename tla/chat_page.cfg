CONSTANTS
  r1 = r1
  Turn = {r1}
  Sub = {r1}
  QueueCap = 2
  MaxSteps = 1
  MaxCalls = 2
  MaxOutputs = 1
  MaxRestarts = 1
  MaxCuts = 1
SPECIFICATION FairSpec
CHECK_DEADLOCK FALSE
INVARIANTS OutputInOwnPanel DoneIsSettled
PROPERTY SendReturnsUnlessLost
