CONSTANTS
  None = None
  a1 = a1
  a2 = a2
  r1 = r1
  r2 = r2
  r3 = r3
  Approval = {a1, a2}
  Connector = {a2}
  Request = {r1, r2, r3}
  Owner = {r1, r2}
  MaxRestarts = 1
SPECIFICATION Spec
SYMMETRY Symmetry
INVARIANTS TypeOK LateDecisionRefused PendingRanNothing ApprovedIsAccounted LinkIsSettled
