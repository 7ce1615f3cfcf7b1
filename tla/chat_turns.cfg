CONSTANTS
  r1 = r1
  r2 = r2
  Turn = {r1, r2}
  Sub = {r1, r2}
  QueueCap = 2
  MaxSteps = 1
  MaxCalls = 1
  MaxOutputs = 1
  MaxRestarts = 0
  MaxCuts = 0
SPECIFICATION Spec
SYMMETRY Symmetry
CHECK_DEADLOCK FALSE
INVARIANTS TypeOK PageTakesTurns NothingMissed
