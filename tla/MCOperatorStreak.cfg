CONSTANTS
  Operators = {o1, o2}
  NoOperator = NoOperator
  Requests = {r1, r2}
  Keys = {k1}
  NoKey = NoKey
  Threshold = 2
  MaxVerdicts = 3
  MaxEdits = 1
  MaxFaults = 1
SPECIFICATION Spec
SYMMETRY Symmetry
CHECK_DEADLOCK FALSE
INVARIANTS
  StreakTypeOK
  LockoutOnRecord
  RetryGetsSameRow
  ThreeDenialsLockOut
PROPERTIES
  LockoutFollowsDenials
