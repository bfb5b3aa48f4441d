\* A running runtime with a safety-critical service down.
SPECIFICATION ServicesSpec
CONSTANTS
  Parts = {"runtime"}
  Services = {1, 2, 3}
  LastPhase = 2
  Phase <- MCPhase
  Dependencies <- MCDependencies
  Required = {1, 2}
  SafetyCritical = {1}
  Hooked = {1, 2, 3}
  Throwing = {2}
  MaxRecoveryAttempts = 2
  MaxBoots = 2
  MaxStops = 2
  Managers = {api, gallery}
  Contents = {empty, text}
  EmptyContent = empty
  Binary = {}
  MaxArtifacts = 3
  MaxUpdates = 1
  Sessions = {s1, s2}
  Workers = {w1, w2}
  Requests = {"recovering", "running"}
  MaxActive = 1
  MaxWorkers = 1
  MaxCalls = 5
  MaxPasses = 4
  Budget = 6
  MaxCost = 2
  MaxScore = 2
  Nodes = {1, 2}
  Views = {1, 2, 3}
  NodeOf <- MCNodeOf
  MaxPtys = 2
  MaxRefs = 4
INVARIANT NeverRunsUnsafe
CHECK_DEADLOCK FALSE
