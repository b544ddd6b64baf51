CONSTANTS
  j1 = j1
  j2 = j2
  r1 = r1
  r2 = r2
  c1 = c1
  c2 = c2
  x1 = x1
  Jobs = {j1, j2}
  Scopes = {r1, r2}
  Kinds = {"generate", "index"}
  Submitters = {c1}
  Cancellers = {x1}
  MaxEvents = 2
  MaxRestarts = 1
  MaxOthers = 0
  MaxLockouts = 0
SPECIFICATION Spec
CHECK_DEADLOCK FALSE
SYMMETRY JobSymmetry
INVARIANTS
  TypeOK
  NoOrphans
  LaneSerial
  WritersPerScope
  TimelineIsTrue
PROPERTIES
  ServesInOrder
