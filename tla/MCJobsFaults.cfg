CONSTANTS
  j1 = j1
  j2 = j2
  r1 = r1
  r2 = r2
  c1 = c1
  c2 = c2
  x1 = x1
  Jobs = {j1, j2}
  Scopes = {r1}
  Kinds = {"generate"}
  Submitters = {c1}
  Cancellers = {x1}
  MaxEvents = 1
  MaxRestarts = 1
  MaxOthers = 1
  MaxLockouts = 1
SPECIFICATION FairSpec
CHECK_DEADLOCK FALSE
INVARIANTS
  OnePlace
  CancelHonoured
PROPERTIES
  QueueDrains
  EveryJobEnds
