CONSTANTS
  w1 = w1  w2 = w2  r1 = r1  j1 = j1  j2 = j2
  rp = rp  rc = rc  rd = rd  wa = wa  wb = wb  wt = wt  s1 = s1  s2 = s2
  main = main  dev = dev  build = build  every = every
  d1 = d1  d2 = d2  q1 = q1  q2 = q2  q3 = q3  k1 = k1  k2 = k2
  None = None
  Workers <- TwoWorkers
  Clients <- LeaseClients  TTL = 30
  Jobs <- TwoJobs  OnMain <- OneJob  GateGrouped <- Empty  Policies <- ApprovedOnly
  FirstPolicy <- Approved  GateTTL = 1  MaxAge = 0  GatePrompt = TRUE
  GateMaxEdits = 0  GateMaxFaults = 1  GateWorkers <- TwoWorkers
  GroupsRuns <- TwoRuns  CancelInProgress = TRUE  GroupsTTL = 1
  GroupsPrompt = FALSE  GroupsMaxFaults = 1
  PipesRuns <- Family  Bridges <- Nested  Mirrored <- Both  Cancels = TRUE  PipesMaxFaults = 1
  PipesWorkers <- TwoWorkers
  DispatchWorkflows <- Fan  Roots <- FirstTwo  Targets <- FanOn  Unavailable <- Empty
  DispatchGrouped <- OnlyT  MaxDepth = 1  DispatchMaxSyncs = 1  DispatchMaxFaults = 1
  Schedules <- TwoSchedules  Period <- EachMinute  Changes <- Deactivate  MaxClock = 3
  SchedMaxEdits = 1  SchedMaxErrors = 0  SchedMaxFaults = 1
  CommitWorkflows <- Order  Branches <- OneBranch  Commits <- Short  Main = main
  WatchedPaths <- BothPaths  Content <- UndoneTree  Filter <- PathsOf  Broken <- Empty  CommitForce = TRUE
  CommitMaxEdits = 1  CommitMaxFaults = 1
  Deliveries <- TwoDeliveries  HooksRequests <- ThreeRequests  Wanted <- FirstDelivery  HooksGrouped <- FirstDelivery
  MaxSends = 3  HooksMaxErrors = 1  MaxHangups = 1  HooksMaxFaults = 1
  FirstStatus = "succeeded"  Sources <- TwoSchedules  Keys <- TwoKeys  LineageRequests <- TwoRequests  MaxRuns = 2
  LineageMaxSyncs = 0  MaxReopens = 0  MaxFailures = 0
SPECIFICATION ServiceSpec
CHECK_DEADLOCK FALSE
INVARIANT TrustIsBacked
INVARIANT DeploymentsAreHonest
 
INVARIANT PipelinesAgree
INVARIANT EventsStartOneRun
INVARIANT RequestsAreAnswered
PROPERTY DecisionsAreFinal
PROPERTY LeasesExpire
SYMMETRY Alike
