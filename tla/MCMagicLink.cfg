CONSTANTS
  invitation = invitation
  reset = reset
  user = user
  Links = {invitation, reset}
  ResetLinks = {reset}
  Users = {user}
  UserOf <- MCUserOf
  Tabs = {t1, t2}
  MaxTries = 2
  MaxFaults = 2
SPECIFICATION Spec
CHECK_DEADLOCK FALSE
INVARIANTS
  LinkTypeOK
  DoneMeansSet
PROPERTIES
  ImplementsOneTimeLink
  PageSettles
