SPECIFICATION Spec
CONSTANTS
  Retries = 1
  MaxLevel = 2
  MaxErrors = 2
  FlashRows <- MCFlashRows
  MaxBoots = 3
  Devices = {"d1", "d2"}
  Steps <- MCSteps
  Scenes <- MCScenes
  Flags <- MCFlags
  Lines <- MCLines
  MaxDepth = 3
  Keys = {"k"}
  Values = {"1", "2"}
  Models <- MCModels
  MaxLog = 2
  MaxLines = 2
  MaxThreads = 2
  Ring = 2
  MaxFrames = 4
  MaxStarts = 2
  Tests = {"t1", "t2"}
  LastPort = 4
  MaxResets = 2
  MaxAllocs = 4
INVARIANTS TypesHold BootIsSound LockedFilesAreSound ContextsRestore FlagsAreRestored RecordingsAreSound
PROPERTIES WaitsEnd
CHECK_DEADLOCK FALSE
