SPECIFICATION Spec
CONSTANTS
  Creators = {c1, c2}
  Updaters = {q1}
  Deleters = {d1}
  Tokeners = {t1, t2}
  Users = {ana}
  Staff = {}
  Pro = {}
  PlanLimit = 2
  Workers = 4
  PortBase = 10000
  MinId = 10001
  MaxId = 10002
  CustomNames <- CustomName
  Patches <- PlainPatches
  custom = custom
  Null = Null
  c1 = c1
  c2 = c2
  q1 = q1
  d1 = d1
  t1 = t1
  t2 = t2
  ana = ana
INVARIANTS
  CredentialsMatchRouter
  ActiveRouterHasCredentials
CHECK_DEADLOCK FALSE
