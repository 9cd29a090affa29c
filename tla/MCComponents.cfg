CONSTANTS
  None = None
  a = a  b = b  c = c  x = x
  KeyOrder <- Order
  MaxDimensions = 2
  MaxVariants = 6
  MatrixJobs <- MatrixSample
  MinutesPerHour = 2
  HoursPerDay = 2
  MonthDays <- Months
  Years = 1
  FieldsOf <- Tried
  Paths <- Files
  Contents = {0, 1}
  Policies <- AllPolicies
  Pushes <- SomePushes
  GraphJobs <- ThreeJobs
  CopiesGraphs <- Ordered
  RunJobs <- ThreeJobs
  Gone <- OneGone
  LocalGraphs <- Shapes
  MaxParallel = 2
  TriedTexts <- ByteOrder
  Lower <- LowerCase
  Numerals <- Numbers
  RegexMatches <- Matching
  Compiles <- Patterns
  Inside <- Substrings
  Cases <- ConditionCases
  Inputs <- JobInputs
  Commands <- SomeCommands
  OutputMaxAttempts = 2
  MaxSections = 2
  MaxAnnotations = 1
  OutputMaxFaults = 1
  Projects <- SomeProjects
  GraphRoot = "root"
  MaxJobs = 5
  GraphMaxDepth = 2
  MaxChildren = 3
  CallProjects <- SomeCallProjects
  CallsRoot = "root"
  CallsMaxDepth = 2
  CallsMaxUnique = 2
  ActionProjects <- SomeActionProjects
  ActionsMaxDepth = 2
  ActionsMaxUnique = 2
  Contracts <- SomeContracts
  StepLists <- SomeStepLists
  SessionMaxAttempts = 2
  SessionMaxFaults = 1
  Plans <- SomePlans
  DefaultRefs = {1, 3}
  DataMaxFaults = 1
  Clients = {1, 2}
  ReleasedRuns <- BuiltRuns
  Project = 1
  Tags = {1}
  Commits = {1, 2}
  FirstTags <- OneTag
  Ids = {1, 2, 3}
  Drafts <- SomeDrafts
  Statuses <- FirstStatuses
  Wanted <- AskedFor
  Edits <- SomeEdits
  MaxRequests = 2
  MaxMoves = 1
  MaxTime = 2
  EventIds = {1, 2, 3}
  Spans <- SomeSpans
  PageSize = 2
  BucketCount = 2
  DefaultSpan = 3
  MaxNow = 4
  MaxPages = 2
  RunnerJobs = {1, 2}
  Setups <- SomeSetups
  MaxSeconds = 1
  RunnersMaxMishaps = 1
  Engines = {"bash", "docker", "podman"}
  StepJobs <- SomeStepJobs
  RuntimePlans <- SomeRuntimePlans
  MaxOutputs = 2
  MaxSummaries = 2
  RuntimeMaxMishaps = 1
  Services = {1, 2}
  MaxMade = 6
  MaxMishaps = 1
  Tabs = {1, 2}
  TTL = 2
  MaxClock = 3
  MaxLogins = 2
  MaxServed = 1
  MaxKeys = 2
  SecretNames = {1, 2}
  MaxEdits = 4
  MaxRekeys = 1
SPECIFICATION ComponentsSpec
CHECK_DEADLOCK FALSE
INVARIANT MatrixRunsWhatItSays
INVARIANT FiltersAdmitWhatTheySay
INVARIANT GraphsAreWhole
INVARIANT ConditionsMeanWhatTheySay
INVARIANT JobsStartAsWritten
PROPERTY CronMeansItsFields
PROPERTY LocalRunIsHonest
PROPERTY OutputIsKept
PROPERTY RunDataIsWhole
PROPERTY ReleasesAreWhatWasBuilt
PROPERTY LoginsHoldTogether
PROPERTY SecretsAreOfTheirTime
