SPECIFICATION Spec
CONSTANTS
  Requests = {q1, q2}
  Surfaces = {s1, s2, s3}
  Statuses = {"active", "paused"}
  MAX_INDEX_ITEMS = 2
  MaxPosts = 3
  MaxCrashes = 1
  Absent = Absent
  None = None
SYMMETRY Interchangeable
CHECK_DEADLOCK FALSE
INVARIANTS TypeOK ListsTrue
