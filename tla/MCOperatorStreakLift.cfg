CONSTANTS
  Operators = {o1}
  NoOperator = NoOperator
  Requests = {r1}
  Keys = {k1}
  NoKey = NoKey
  Threshold = 3
  MaxVerdicts = 3
  MaxEdits = 2
  MaxFaults = 0
SPECIFICATION Spec
CHECK_DEADLOCK FALSE
INVARIANTS
  OnlyReviewerLifts
