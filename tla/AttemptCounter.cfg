CONSTANTS
  Requests = {r1, r2, r3}
  Limit = 3
SPECIFICATION Spec
SYMMETRY Interchangeable
INVARIANTS
  TriesBounded
