SPECIFICATION Spec
CONSTANTS
  t1 = t1
  t2 = t2
  letter = letter
  Tabs = {t1, t2}
  Required = {letter}
  Optional = {}
  ClientModes = {"admin", "client", "both"}
  MaxDrafts = 2
  MaxDecisions = 3
  MaxLost = 1
SYMMETRY TabSymmetry
CHECK_DEADLOCK FALSE
INVARIANTS
  SuperadminFirst
