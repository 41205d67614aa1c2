SPECIFICATION FairSpec
CONSTANTS
  PANIC_BEEPS = 2
  SleepTicks = 3
  Exceptions = {"fault", "halting", "abort"}
INVARIANTS
  SleepCanEnd
  FlagsTruthful
  HaltsSilent
PROPERTIES
  PanicIsFinal
  BootEnds
