CONSTANTS
  r1 = r1
  r2 = r2
  Repos = {r1, r2}
  Registered = {r1}
  EarlierJobs <- MCJobs
  None = None
  Refused = Refused
  MaxEvents = 2
  MaxFaults = 1
  MaxPolls = 1
  MaxFlight = 2
  StartViews = {"jobs"}
SPECIFICATION Spec
CHECK_DEADLOCK FALSE
INVARIANTS
  TypeOK
  DetailIsFresh
PROPERTY
  PageHeals
