CONSTANTS
  r1 = r1
  r2 = r2
  j1 = j1
  j2 = j2
  s1 = s1
  s2 = s2
  s3 = s3
  w1 = w1
  w2 = w2
  None = None
  Runs <- MCRuns
  Jobs <- MCJobs
  Steps <- MCSteps
  Workers <- MCWorkers
  RunOf <- MCRunOf
  JobOf <- MCJobOf
  JobSeq <- MCJobSeq
  StepSeq <- MCStepSeq
  Needs <- MCNeeds
  Always <- JustS2
  Manual <- NoManual
  AllowFailure <- JustS1
  RuleAllow <- Job1
  Gated <- Job2
  Containers <- Job2
  Publishers <- Job1
  Timed <- Job1
  Retries <- Retry1
  Cancellable <- MCRuns
  MaxAttempts <- AttemptBound
  MaxFaults = 1
SPECIFICATION Spec
INVARIANT WorkerTypeOK
INVARIANT ClaimsAreHonoured
INVARIANT NoWorkOutsideRunningRun
INVARIANT SucceededRunIsHonest
INVARIANT CommandsAreOrderly
PROPERTY JobsStartAfterNeeds
PROPERTY UsesStoreAsSpecified
