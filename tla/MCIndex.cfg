CONSTANTS
  shared = shared
  own = own
  note = note
  f = f
  g = g
  a = a
  b = b
  p = p
  q = q
  t1 = t1
  t2 = t2
  Sections = {shared, own, note}
  Symbols = {f, g}
  Node <- MCNode
  Importance <- MCImportance
  CodeLimit = 1
  Runs = {a, b}
  Yields <- MCYields
  Pages <- MCPages
  Profiles = {p, q}
  Threads = {t1, t2}
  MaxChanges = 2
  MaxFaults = 1
SPECIFICATION Spec
CHECK_DEADLOCK FALSE
INVARIANTS
  TypeOK
  FoundOnce
  IndexIsCurrent
  NothingForgotten
SYMMETRY ThreadSymmetry
CONSTRAINT OneKindOfTrouble
