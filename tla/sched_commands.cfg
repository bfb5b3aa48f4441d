\* Commands, ticks, clocks and resets on three units; default readiness context.
SPECIFICATION FairSpec
CONSTANTS
  u1 = u1
  u2 = u2
  u3 = u3
  task = task
  merge = merge
  w1 = w1
  w2 = w2
  Units <- ThreeUnits
  Kinds = {task, merge}
  Workspaces = {w1, w2}
  KindOf <- MCKindOf
  WorkspaceOf <- MCWorkspaceOf
  Deps <- MCDeps
  NeedsPermission <- None
  Estimated <- OneEstimate
  Estimate <- MCEstimate
  Limit <- MCLimit
  Unlimited = 9
  BasePriority <- TaskFirst
  MaxConcurrency = 2
  MaxPerGroup = 2
  MaxPerWorkspace = 2
  NoCap = 9
  MaxAttempts = 3
  EnableAging = TRUE
  MaxAgingLevels = 1
  Old <- OnlyU2
  RateCapacity = 2
  AppProvider = FALSE
  Admin = {"fairness", "concurrency", "rate"}
  Counted <- None
INVARIANTS
  TypeOK
  OnePlace
  BudgetMatchesRunning
  BudgetNeverExceeded
  NoFairnessLeak
  RetryHasEntry
  FailedIsRecorded
PROPERTIES
  NothingLost
  GatesBeforeRunnable
  DependenciesReleaseUnits
