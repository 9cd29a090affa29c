CONSTANTS
  r1 = r1
  r2 = r2
  j1 = j1
  j2 = j2
  s1 = s1
  s2 = s2
  s3 = s3
  w1 = w1
  w2 = w2
  None = None
  Runs <- TwoRuns
  Jobs <- MCJobs
  Steps <- JustS1
  Workers <- OneWorker
  RunOf <- RunOfEach
  JobOf <- StepOfFirst
  JobSeq <- OneJobEach
  StepSeq <- OneStep
  Needs <- NoNeeds
  Always = {}
  Manual <- NoManual
  AllowFailure = {}
  RuleAllow = {}
  Gated <- Both
  Containers = {}
  Publishers = {}
  Timed = {}
  Retries <- NoRetry
  MaxAttempts <- FourAttempts
  Cancellable = {}
  MaxFaults = 1
SPECIFICATION FairSpec
PROPERTY RunsSettle
