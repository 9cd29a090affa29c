CONSTANTS
  w1 = w1  w2 = w2  r1 = r1  j1 = j1  j2 = j2
  rp = rp  rc = rc  rd = rd  wa = wa  wb = wb  wt = wt  s1 = s1  s2 = s2
  main = main  dev = dev  build = build  every = every
  d1 = d1  d2 = d2  q1 = q1  q2 = q2  q3 = q3  k1 = k1  k2 = k2
  None = None
  Workers <- TwoWorkers
  Clients <- LeaseClients  TTL = 30
  Jobs <- TwoJobs  OnMain <- OneJob  GateGrouped <- Empty  Policies <- Tightened
  FirstPolicy <- Timed  GateTTL = 1  MaxAge = 1  GatePrompt = FALSE
  GateMaxEdits = 1  GateMaxFaults = 0  GateWorkers <- OneWorker
  GroupsRuns <- TwoRuns  CancelInProgress = TRUE  GroupsTTL = 1
  GroupsPrompt = TRUE  GroupsMaxFaults = 1
  PipesRuns <- Family  Bridges <- Wide  Mirrored <- OnlyC  Cancels = FALSE  PipesMaxFaults = 2
  PipesWorkers <- OneWorker
  DispatchWorkflows <- Cycle  Roots <- OnlyA  Targets <- CycleOn  Unavailable <- Empty
  DispatchGrouped <- Empty  MaxDepth = 1  DispatchMaxSyncs = 0  DispatchMaxFaults = 1
  Schedules <- TwoSchedules  Period <- EachMinute  Changes <- Empty  MaxClock = 4
  SchedMaxEdits = 0  SchedMaxErrors = 0  SchedMaxFaults = 0
  CommitWorkflows <- Order  Branches <- OneBranch  Commits <- Short  Main = main
  WatchedPaths <- BothPaths  Content <- UndoneTree  Filter <- PathsOf  Broken <- OnlyEvery  CommitForce = TRUE
  CommitMaxEdits = 1  CommitMaxFaults = 1
  Deliveries <- TwoDeliveries  HooksRequests <- TwoRequests  Wanted <- FirstDelivery  HooksGrouped <- FirstDelivery
  MaxSends = 3  HooksMaxErrors = 1  MaxHangups = 1  HooksMaxFaults = 1
  FirstStatus = "running"  Sources <- OneSource  Keys <- OneKey  LineageRequests <- TwoRequests  MaxRuns = 2
  LineageMaxSyncs = 1  MaxReopens = 0  MaxFailures = 1
SPECIFICATION FairServiceSpec
CHECK_DEADLOCK FALSE
PROPERTY NothingIsLost
PROPERTY ReplaysTerminalSource
PROPERTY WaitersAreServed
PROPERTY EventsAreRun
