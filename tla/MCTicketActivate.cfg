SPECIFICATION FairSpec
CONSTANTS
  Tickets = {k1, k2}
  Generators = {g1}
  Activators = {a1, a2}
  Cancellers = {x1}
  Destroyers = {d1}
  Names = {k1, n1}
  Null = Null
  k1 = k1
  k2 = k2
  g1 = g1
  a1 = a1
  a2 = a2
  x1 = x1
  d1 = d1
  n1 = n1
INVARIANTS
  TypeOK
  IInv
  OneUserPerTicket
  ActiveTicketHasItsUser
PROPERTIES
  DeletedStaysDeleted
  ImplementsLedger
  EveryRequestIsAnswered
CHECK_DEADLOCK FALSE
