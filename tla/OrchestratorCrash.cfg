SPECIFICATION FairSpec
CONSTANTS
  PlanLength = 3
  NumWorkers = 2
  StepLimits = {1, 2}
  MaxCreates = 1
  MaxFailures = 3
  MaxCrashes = 2
INVARIANTS
  TypeOK
  WriteAhead
  ReconciledOnce
  NoReworkAfterCompletion
  VerdictIsEarned
  AuditTrail
  LossBounded
  PausedMeansMoreRemain
PROPERTIES
  KeepsLedger
  EveryTurnCompletes
