CONSTANTS
  r1 = r1
  r2 = r2
  Turn = {r1, r2}
  Sub = {}
  QueueCap = 1
  MaxSteps = 2
  MaxCalls = 2
  MaxOutputs = 1
  MaxRestarts = 1
SPECIFICATION TurnSpec
SYMMETRY Symmetry
CHECK_DEADLOCK FALSE
INVARIANTS TurnTypeOK OwnRowsWellFormed SequentialHistory IntentIsStored RunsAreAudited
