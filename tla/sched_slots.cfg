\* Two tasks and a merge on two slots, as in the test of the limit.
SPECIFICATION Spec
CONSTANTS
  u1 = u1
  u2 = u2
  u3 = u3
  task = task
  merge = merge
  w1 = w1
  w2 = w2
  Units <- ThreeUnits
  Kinds = {task, merge}
  Workspaces = {w1, w2}
  KindOf <- MCKindOf
  WorkspaceOf <- MCWorkspaceOf
  Deps <- NoDeps
  NeedsPermission <- None
  Estimated <- None
  Estimate <- MCEstimate
  Limit <- MCLimit
  Unlimited = 9
  BasePriority <- MCPriority
  MaxConcurrency = 2
  MaxPerGroup = 4
  MaxPerWorkspace = 8
  NoCap = 9
  MaxAttempts = 3
  EnableAging = FALSE
  MaxAgingLevels = 1
  Old <- None
  RateCapacity = 2
  AppProvider = FALSE
  Admin = {"fairness"}
  Counted <- None
PROPERTY
  TickFillsSlots
