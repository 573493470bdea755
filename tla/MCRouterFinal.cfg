SPECIFICATION Spec
CONSTANTS
  Creators = {c1}
  Updaters = {q1}
  Deleters = {d1}
  Tokeners = {}
  Users = {ana}
  Staff = {}
  Pro = {}
  PlanLimit = 1
  Workers = 2
  PortBase = 10000
  MinId = 10001
  MaxId = 10002
  CustomNames <- CustomName
  Patches <- SilentPatches
  custom = custom
  Null = Null
  c1 = c1
  q1 = q1
  d1 = d1
  ana = ana
PROPERTIES
  DeletionIsFinal
CHECK_DEADLOCK FALSE
