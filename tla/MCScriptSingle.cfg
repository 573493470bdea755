SPECIFICATION Spec
CONSTANTS
  Executions = {e1}
  Generators = {g1}
  Bootstrappers = {b1}
  Editors = {w1}
  Destroyers = {x1}
  Downloaders = {d1, d2, d3}
  Workers = 2
  Null = Null
  e1 = e1
  g1 = g1
  b1 = b1
  w1 = w1
  x1 = x1
  d1 = d1
  d2 = d2
  d3 = d3
SYMMETRY DownloadSymmetry
INVARIANTS
  TypeOK
  ServedBoundedByThreads
  ServedAsIssuedOrEdited
PROPERTIES
  NoReadAfterServing
CHECK_DEADLOCK FALSE
