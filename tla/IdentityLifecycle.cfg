SPECIFICATION Spec
CONSTANTS
  Requests = {q1, q2}
  Identities = {ann}
  Pool <- TwoDecisions
  MaxCrashes = 1
  MaxReplaced = 2
  MaxAgain = 1
  Absent = Absent
  None = None
  ann = ann
  t1 = t1
  d1 = d1
  d2 = d2
  v1 = v1
  e1 = e1
SYMMETRY Interchangeable
CHECK_DEADLOCK FALSE
INVARIANTS TypeOK StateBacked PassageSpent CarriedOnce LossBounded
