CONSTANTS
  r1 = r1
  j1 = j1
  j2 = j2
  s1 = s1
  w1 = w1
  w2 = w2
  None = None
  Runs <- MCRuns
  Jobs <- MCJobs
  Steps <- MCSteps
  Workers <- MCWorkers
  RunOf <- MCRunOf
  JobOf <- MCJobOf
  MaxAttempts <- AttemptBound
SYMMETRY Symmetry
SPECIFICATION StoreSpec
INVARIANT TypeOK
INVARIANT WaitingRunHasOneWaker
INVARIANT WaitRowsMatchJobs
INVARIANT RunningRunIsClaimed
PROPERTY DecidedRunsStayDecided
PROPERTY CommandNeverReplayed
