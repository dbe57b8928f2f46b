CONSTANTS
  Tabs = {t1, t2}
  MaxLogins = 2
  MaxCalls = 2
  MaxFaults = 1
SPECIFICATION Spec
INVARIANTS
  SessionTypeOK
  SelfieBeforeDesk
PROPERTIES
  DeadSessionEnds
