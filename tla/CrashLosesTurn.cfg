SPECIFICATION FairSpec
CONSTANTS
  PlanLength = 3
  NumWorkers = 2
  StepLimits = {1, 2}
  MaxCreates = 1
  MaxFailures = 0
  MaxCrashes = 1
INVARIANTS
  PackageSeesCompletedWork
