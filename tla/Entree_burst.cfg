SPECIFICATION Spec
CONSTANTS
  h1 = h1
  h2 = h2
  j1 = j1
  j2 = j2
  j3 = j3
  NoJob = NoJob
  Never = Never
  Host <- OneHost
  Known <- OneHost
  Allowed <- OneHost
  Path <- OnePath
  Root <- MCRoot
  Job <- MCJob3
  Request <- LinksAndFullPass
  Period <- MCPeriod
  StartupDays = 1
  MaxWorkers = 2
  DBFaults = FALSE
  MaxDay = 2
  MaxCrashes = 0
INVARIANTS
  SingleBurstBounded
  AcceptedIsInFlight
SYMMETRY Symmetry
