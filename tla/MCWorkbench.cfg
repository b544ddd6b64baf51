CONSTANTS
  a = a
  b = b
  c = c
  d = d
  f = f
  m = m
  k = k
  cf = cf
  ba = ba
  fa = fa
  ad = ad
  Nodes = {a, b, c, d, f, m, k}
  Edges = {cf, ba, fa, ad}
  Source <- MCSource
  Target <- MCTarget
  Callbacks = {ad}
  Place <- MCPlace
  AnswerNodes = 3
  FoundNodes = 2
  FoundEdges = 2
  Quota <- MCQuota
  DrawNodes = 3
  DrawEdges = 1
  Callable = {a, b, c, d, f}
  Modules = {m}
  Communities = {k}
  Entries = {a}
  Hubs = {c}
  Listed = {m}
  Surprises = {cf}
  Maps <- MCMaps
  Searches = {{a}}
  None = None
  MaxEvents = 3
SPECIFICATION Spec
CHECK_DEADLOCK FALSE
INVARIANTS
  TypeOK
  LoadedIsCurrent
  NoOrphanSpinner
  ThreeDIsEligible
  CutIsClosed
  RolesAreChains
