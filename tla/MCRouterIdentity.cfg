SPECIFICATION FairSpec
CONSTANTS
  Creators = {c1, c2}
  Updaters = {q1}
  Deleters = {d1}
  Tokeners = {t1}
  Users = {zoe}
  Staff = {zoe}
  Pro = {}
  PlanLimit = 2
  Workers = 3
  PortBase = 10000
  MinId = 10001
  MaxId = 10002
  CustomNames <- CustomName
  Patches <- IdentityPatches
  custom = custom
  Null = Null
  c1 = c1
  c2 = c2
  q1 = q1
  d1 = d1
  t1 = t1
  zoe = zoe
INVARIANTS
  UniqueKeys
  IInv
PROPERTIES
  EveryRequestIsAnswered
CHECK_DEADLOCK FALSE
