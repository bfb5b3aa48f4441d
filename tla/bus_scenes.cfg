SPECIFICATION ScenesSpec
CONSTANTS
  merge = merge
  memo = memo
  note = note
  progress1 = progress1
  progress2 = progress2
  recorder = recorder
  bridge = bridge
  plugin = plugin
  ui = ui
  execution = execution
  NoKey = NoKey
  Events = {merge, memo, note, progress1, progress2}
  Subs = {recorder, bridge, plugin, ui}
  Kind <- MCKind
  Wants <- SceneWants
  Keys = {execution}
  KeyOf <- MCKeyOf
  Source <- MCSource
  Immediate = {merge}
  Progress = {progress1, progress2}
  ReplayGrade = {merge, note}
  TooLarge = {}
  Intercepted = {note, memo}
  ConsumerThrows = TRUE
  MaxBatch = 3
  MaxConsecutivePanics = 2
  LogFailureLimit = 2
  MaxStarts = 2
  MaxDrains = 1
INVARIANTS
  TypeOK
  WriteAhead
  DeliveredOnce
  ServedInOrder
  CoalesceIndexSound
PROPERTIES
  PublishReturns
  UiEventuallyShown
  ImplementsBroker
CHECK_DEADLOCK FALSE
