CONSTANTS
  None = None
  Projects <- StagedProjects
  Root = "root"
  MaxJobs = 3
  MaxDepth = 2
  MaxChildren = 1
SPECIFICATION Spec
CHECK_DEADLOCK FALSE
INVARIANT StagesAreOrdered
