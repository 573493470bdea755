SPECIFICATION FairSpec
CONSTANTS
  Requests = {p1, p2, p3}
  Routers = {ra, rb}
  MkIds = {m1, m2}
  Names = {n1, n2}
  Rates = {x1}
  Timeouts = {t1}
  Usernames = {u1}
  Bodies <- SomeBodies
  Seeds = {s1, s2}
  SeedRow <- SomeSeedRows
  Blank = Blank
  Null = Null
  p1 = p1
  p2 = p2
  p3 = p3
  ra = ra
  rb = rb
  m1 = m1
  n1 = n1
  n2 = n2
  s1 = s1
  s2 = s2
INVARIANTS
  TypeOK
  LinksAreTrue
  OrphansAreExplained
  RemoteSettingsWereLocal
PROPERTIES
  ImplementsMirror
  EveryRequestIsAnswered
CHECK_DEADLOCK FALSE
