CONSTANTS
  o1 = o1
  o2 = o2
  a1 = a1
  a2 = a2
  k1 = k1
  Orgs = {o1, o2}
  Users = {a1, a2}
  Payments = {p1}
  Tx = {h1, h2}
  Amounts = {1, 2}
  Caps = {1}
  MaxRows = 9
  Orders = {k1, k2}
  MaxFaults = 1
  AdminOrg <- MCAdminOrg
  OrderAdmin <- MCOrderAdmin
  OrderAmount <- MCOrderAmount
  NoOrg = NoOrg
  NoUser = NoUser
  NoPayment = NoPayment
  NoCap = NoCap
  NoTx = NoTx
  NoOrder = NoOrder
SPECIFICATION TopUpFairSpec
CHECK_DEADLOCK FALSE
INVARIANTS
  TopUpTypeOK
  AckedIsCredited
  DepositMatchesOrder
  PaymentCreditedOnce
PROPERTIES
  TopUpUsesStore
  AbstractLedger
  CapturedIsCredited
