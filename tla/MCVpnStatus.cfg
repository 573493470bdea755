SPECIFICATION Spec
CONSTANTS
  Routers = {r1, r2}
  Sessions = {s1, s2}
  Readers = {p1, p2}
  MaxTime = 2
  Null = Null
  r1 = r1
  r2 = r2
  s1 = s1
  s2 = s2
  p1 = p1
  p2 = p2
SYMMETRY StatusSymmetry
INVARIANTS
  TypeOK
  StatusWasTrue
  NoReadingForgets
CHECK_DEADLOCK FALSE
