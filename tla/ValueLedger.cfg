SPECIFICATION Spec
CONSTANTS
  Requests = {q1}
  Identities = {ann}
  Currencies = {USD}
  Pool <- OrderlyPool
  Bounds <- Orderly
  Statuses = {"active"}
  Declarations = {2}
  LimitSettings <- OneDailyLimit
  TopupAmounts = {1, 2}
  SpendAmounts = {1}
  MaxIndexItems = 2
  Idle = Idle
  Absent = Absent
  None = None
  ann = ann
  USD = USD
  s1 = s1
  s2 = s2
  t1 = t1
  d1 = d1
  d2 = d2
  m1 = m1
  m2 = m2
  p1 = p1
  c1 = c1
  b1 = b1
  b2 = b2
  x1 = x1
  x2 = x2
  x3 = x3
  f1 = f1
  e1 = e1
  e2 = e2
INVARIANTS TypeOK ReceiptsListed
PROPERTIES LedgerSpec
