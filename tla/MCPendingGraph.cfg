CONSTANTS
  r1 = r1
  r2 = r2
  j1 = j1
  j2 = j2
  s1 = s1
  s2 = s2
  s3 = s3
  w1 = w1
  w2 = w2
  None = None
  Runs <- MCRuns
  Jobs <- MCJobs
  Steps <- MCSteps
  Workers <- MCWorkers
  RunOf <- MCRunOf
  JobOf <- MCJobOf
  JobSeq <- MCJobSeq
  StepSeq <- MCStepSeq
  Needs <- MCNeeds
  Always = {}
  Manual <- Blocking2
  AllowFailure = {}
  RuleAllow = {}
  Gated = {}
  Containers = {}
  Publishers = {}
  Timed = {}
  Retries <- NoRetry
  Cancellable <- MCRuns
  MaxAttempts <- AttemptBound
  MaxFaults = 0
SPECIFICATION Spec
INVARIANT CancelledRunHasNoPendingJob
