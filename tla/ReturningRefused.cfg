CONSTANTS
  Requests = {r1, r2}
  Identities = {ann, bob}
  Pool <- Whole
  Bounds <- Returning
  Ends <- TwoEnds
  Acted = {"seen"}
  RecentLimit = 1
  Requested = {}
  PostedPings = {"queued"}
  Phrases = {lamp}
  Shown = {"available"}
  PostedClaims = {"open"}
  Forced = {FALSE}
  Passwords = {w1, w2}
  Consumed = Consumed
  Expired = Expired
  None = None
  ann = ann
  bob = bob
  v1 = v1
  p1 = p1
  p2 = p2
  t1 = t1
  t2 = t2
  c1 = c1
  d1 = d1
  f1 = f1
  n1 = n1
  x1 = x1
  z1 = z1
  o1 = o1
  o2 = o2
  k1 = k1
  k2 = k2
  h1 = h1
  q1 = q1
  e1 = e1
  e2 = e2
  u1 = u1
  u2 = u2
  s1 = s1
  s2 = s2
SPECIFICATION Spec
SYMMETRY Interchangeable
CHECK_DEADLOCK FALSE
PROPERTIES ReturningEnters
