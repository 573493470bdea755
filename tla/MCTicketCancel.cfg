SPECIFICATION Spec
CONSTANTS
  Tickets = {k1, k2}
  Generators = {g1}
  Activators = {a1, a2}
  Cancellers = {x1}
  Destroyers = {}
  Names = {}
  Null = Null
  k1 = k1
  k2 = k2
  g1 = g1
  a1 = a1
  a2 = a2
  x1 = x1
SYMMETRY TicketSymmetry
PROPERTIES
  OnlyPendingIsCancelled
CHECK_DEADLOCK FALSE
