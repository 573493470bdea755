SPECIFICATION Spec
CONSTANTS
  Creators = {c1, c2, c3}
  Updaters = {q1}
  Deleters = {}
  Tokeners = {}
  Users = {ana, bob}
  Staff = {}
  Pro = {bob}
  PlanLimit = 1
  Workers = 2
  PortBase = 10000
  MinId = 10001
  MaxId = 10003
  CustomNames <- CustomName
  Patches <- IdentityPatches
  custom = custom
  Null = Null
  c1 = c1
  c2 = c2
  c3 = c3
  q1 = q1
  ana = ana
  bob = bob
INVARIANTS
  TypeOK
  RegistrationIsAtomic
  OverLimitBoundedByThreads
PROPERTIES
  ImplementsRegistry
CHECK_DEADLOCK FALSE
