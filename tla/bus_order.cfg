SPECIFICATION Spec
CONSTANTS
  merge = merge
  note = note
  progress1 = progress1
  progress2 = progress2
  recorder = recorder
  bridge = bridge
  plugin = plugin
  ui = ui
  execution = execution
  NoKey = NoKey
  Events = {note, progress1}
  Subs = {recorder, bridge}
  Kind <- MCKind
  Wants <- MCWants
  Keys = {execution}
  KeyOf <- MCKeyOf
  Source <- MCSource
  Immediate = {}
  Progress = {progress1}
  ReplayGrade = {note}
  TooLarge = {}
  Intercepted = {}
  ConsumerThrows = FALSE
  MaxBatch = 3
  MaxConsecutivePanics = 3
  LogFailureLimit = 3
  MaxStarts = 1
  MaxDrains = 1
INVARIANTS
  PerSourceOrder
CHECK_DEADLOCK FALSE
