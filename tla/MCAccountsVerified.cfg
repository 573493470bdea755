SPECIFICATION Spec
CONSTANTS
  Requests = {p1, p2, p3}
  Emails = {e1, e2, e3}
  Seeds = {e1}
  Uids = {g1, g2}
  Blank = Blank
  Patches <- SomePatches
  MaxAttempts = 1
  Workers = 2
  Null = Null
  p1 = p1
  p2 = p2
  p3 = p3
  e1 = e1
  e2 = e2
  e3 = e3
  g1 = g1
  g2 = g2
SYMMETRY AccountSymmetry
PROPERTIES
  VerifiedStaysVerified
CHECK_DEADLOCK FALSE
