\* Three units that contend for the slots, the shares and the budget, and fail
\* as often as they like.
SPECIFICATION FairSpec
CONSTANTS
  u1 = u1
  u2 = u2
  u3 = u3
  task = task
  merge = merge
  w1 = w1
  w2 = w2
  Units <- ThreeUnits
  Kinds = {task, merge}
  Workspaces = {w1, w2}
  KindOf <- MCKindOf
  WorkspaceOf <- MCWorkspaceOf
  Deps <- NoDeps
  NeedsPermission <- None
  Estimated <- OneEstimate
  Estimate <- MCEstimate
  Limit <- OnlyWorkers
  Unlimited = 9
  BasePriority <- TaskFirst
  MaxConcurrency = 2
  MaxPerGroup = 2
  MaxPerWorkspace = 2
  NoCap = 9
  MaxAttempts = 3
  EnableAging = FALSE
  MaxAgingLevels = 1
  Old <- None
  RateCapacity = 2
  AppProvider = FALSE
  Admin = {"budget", "dead"}
  Counted <- None
INVARIANTS
  SlotsMatchRunning
  CapacityBound
PROPERTIES
  ImplementsAdmission
  EventuallySettles
