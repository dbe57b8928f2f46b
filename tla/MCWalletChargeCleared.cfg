CONSTANTS
  o1 = o1
  Orgs = {o1}
  Users = {u1, u2}
  Payments = {p1}
  Tx = {r1, r2, c1}
  Amounts = {1}
  Caps = {1}
  MaxRows = 5
  Requests = {r1, r2}
  Sessions = {s1}
  Fee = 1
  TopUpRows = 3
  OrgOf <- MCOrgOf
  NoOrg = NoOrg
  NoUser = NoUser
  NoPayment = NoPayment
  NoCap = NoCap
  NoTx = NoTx
SPECIFICATION ChargeSpec
CHECK_DEADLOCK FALSE
INVARIANTS
  PurseAlwaysTruthful
