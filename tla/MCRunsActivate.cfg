CONSTANTS
  n1 = n1
  n2 = n2
  n3 = n3
  l1 = l1
  l2 = l2
  top = top
  g1 = g1
  a1 = a1
  RunIds = {n1, n2}
  Modules = {l1, top}
  Parent <- MCParent
  NoModule = NoModule
  Selections <- TopSelection
  Generators = {g1}
  Activators = {a1}
  Versions = {0, 1}
  MaxEdits = 3
  MaxRestarts = 0
  MaxOthers = 0
  MaxIngestFailures = 0
SPECIFICATION Spec
CHECK_DEADLOCK FALSE
SYMMETRY RunSymmetry
INVARIANTS
  SnapshotIsCurrent
  CurrentIsCompleted
