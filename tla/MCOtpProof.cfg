CONSTANTS
  Pages = {p1}
  Targets = {t1, t2}
  MaxTries = 2
  MaxCalls = 3
  MaxCodes = 2
  MaxFaults = 1
SPECIFICATION Spec
SYMMETRY Symmetry
CHECK_DEADLOCK FALSE
INVARIANTS
  OtpTypeOK
  AcceptedTargetProven
  CodeBudget
