CONSTANTS
  Requests = {r1, r2}
  Passes = {p1, p2}
  Tokens = {t1, t2, t3}
  Ids = {i1, i2}
  Emails = {ann, bob}
  OneByOne = {TRUE, FALSE}
  MaxLosses = 1
  None = None
SPECIFICATION Spec
SYMMETRY Interchangeable
CHECK_DEADLOCK FALSE
INVARIANTS
  TypeOK
  VerifiedBacked
  PassWorthOne
  OnceEach
