CONSTANTS
  n1 = n1
  n2 = n2
  n3 = n3
  l1 = l1
  l2 = l2
  top = top
  g1 = g1
  a1 = a1
  RunIds = {n1, n2, n3}
  Modules = {l1, top}
  Parent <- MCParent
  NoModule = NoModule
  Selections <- WholePlan
  Generators = {g1}
  Activators = {}
  Versions = {0, 1}
  MaxEdits = 1
  MaxRestarts = 1
  MaxOthers = 1
  MaxIngestFailures = 1
SPECIFICATION Spec
CHECK_DEADLOCK FALSE
SYMMETRY RunSymmetry
INVARIANTS
  TypeOK
  SnapshotIsCurrent
  NoRunLeftRunning
  ContinuedOnce
PROPERTIES
  EndedRunsAreImmutable
