CONSTANTS
  t1 = t1
  t2 = t2
  NoThread = NoThread
  NoName = NoName
  Zero = Zero
  Defaults = Defaults
  Freed = Freed
  Threads <- MCThreads
  Names <- MCNames
  Stored <- MCStored
  Params <- MCParams
  Tags <- MCTags
  Presets <- MCPresets
  MaxCalls = 3
SPECIFICATION Spec
INVARIANTS PresetsAreReady NamesStandForOne ReadsAreWhole
CHECK_DEADLOCK FALSE
PROPERTY CallsReturn
