CONSTANTS
  l1 = l1
  l2 = l2
  l3 = l3
  sub = sub
  guide = guide
  Leaves = {l1, l2, l3}
  Aggregates = {sub, guide}
  Children <- MCChildren
  Rank <- MCRank
  Requests <- MCRequests
  Affected <- MCAffected
  ModuleGenerationConcurrency = 2
  MaxRuns = 2
SPECIFICATION FairSpec
INVARIANTS
  TypeOK
  RecordedIsComplete
  JoinedBeforeEnd
  NoRepeatedWork
  CancelIsFinal
  IInv
PROPERTIES
  RecordsKept
  BuildsBottomUp
  EveryRunEnds
CHECK_DEADLOCK FALSE
